---- MODULE Spec2Model ----
(***************************************************************************)
(* State machine of the muOS Pokemon randomizer front-end:                 *)
(*   - AppStatus and its sub-statuses (models.py),                         *)
(*   - the per-frame navigation routing (view.py, app.py, main.py),        *)
(*   - the SelectROM / RandomizeROM / ExitMenu handlers and the            *)
(*     randomization worker thread _patch_rom (gui_components.py).         *)
(* The UI thread runs one frame per Frame step; every worker thread is a   *)
(* record in `workers` that advances one blocking call or one critical     *)
(* section per step.                                                       *)
(***************************************************************************)
EXTENDS Integers, Sequences, FiniteSets, TLC

\* Bounds of the model (not program constants).
MaxSpawn == 2      \* worker threads started over one behaviour

(***************************************************************************)
(* Paths.  A pathlib.Path is a record: the directory components, and for a *)
(* file the stem, the last suffix and the ".randomized.<now>" parts that   *)
(* with_suffix has inserted before the suffix.                             *)
(***************************************************************************)
DirPath(d) == [dir |-> d, stem |-> "", suffix |-> "", stamps |-> <<>>]
FilePath(d, stem, suffix, stamps) ==
    [dir |-> d, stem |-> stem, suffix |-> suffix, stamps |-> stamps]
RootPath  == DirPath(<<>>)
None      == [dir |-> <<>>, stem |-> "", suffix |-> "None", stamps |-> <<>>]
sd1_roms_path == <<"mnt", "mmc", "ROMS">>
sd2_roms_path == <<"mnt", "sdcard", "ROMS">>

\* str.lower() on the suffixes that occur in the model.
Lower(s) ==
    CASE s = "GB"  -> "gb"
      [] s = "GBA" -> "gba"
      [] s = "GBC" -> "gbc"
      [] OTHER     -> s
RomSuffixes == {"gba", "gbc", "gb"}

\* orig_rom_path.with_suffix(f".randomized.{now}.{rom_extension}")
WithRandomizedSuffix(p, now, ext) ==
    [dir |-> p.dir, stem |-> p.stem, suffix |-> ext,
     stamps |-> Append(p.stamps, now)]

(***************************************************************************)
(* The filesystem: a function from the directories that exist to their     *)
(* entries in native enumeration order (what Path.iterdir yields).         *)
(***************************************************************************)
DirEntry(name) == [is_dir |-> TRUE, stem |-> name, suffix |-> "", stamps |-> <<>>]
FileEntry(stem, suffix) ==
    [is_dir |-> FALSE, stem |-> stem, suffix |-> suffix, stamps |-> <<>>]
EntryPath(folder, e) ==
    IF e.is_dir THEN DirPath(Append(folder, e.stem))
    ELSE FilePath(folder, e.stem, e.suffix, e.stamps)

\* SD1 holds a folder with a ROM, a text file and a folder whose subtree has
\* no ROM; SD2 is not mounted.
FsOneCard ==
    (sd1_roms_path :> << DirEntry("gba"), FileEntry("notes", "txt"),
                         DirEntry("empty") >>)
 @@ (Append(sd1_roms_path, "gba") :> << FileEntry("a", "gba") >>)
 @@ (Append(sd1_roms_path, "empty") :> << DirEntry("sub") >>)
 @@ (Append(Append(sd1_roms_path, "empty"), "sub") :> << FileEntry("readme", "txt") >>)
\* SD1 is mounted but holds no ROM; SD2 holds one ROM with an upper-case
\* suffix.
FsTwoCards ==
    (sd1_roms_path :> << DirEntry("empty") >>)
 @@ (Append(sd1_roms_path, "empty") :> << >>)
 @@ (sd2_roms_path :> << FileEntry("c", "GBC") >>)
\* No card holds a ROM.
FsNoRoms ==
    (sd1_roms_path :> << FileEntry("notes", "txt") >>)
InitialFilesystems == {FsOneCard, FsTwoCards, FsNoRoms}

PathExists(f, p) ==
    IF p.stem = "" /\ p.suffix = ""
    THEN p.dir \in DOMAIN f
    ELSE /\ p.dir \in DOMAIN f
         /\ \E i \in 1..Len(f[p.dir]) : EntryPath(p.dir, f[p.dir][i]) = p

(***************************************************************************)
(* TreeNode and SelectROMStatus._generate_tree                             *)
(***************************************************************************)
NodeName(glyph, stem, stamps, suffix) ==
    [glyph |-> glyph, stem |-> stem, stamps |-> stamps, suffix |-> suffix]
TreeNode(name, is_file, path, children) ==
    [name |-> name, is_file |-> is_file, path |-> path, children |-> children]

\* Mutant: only a missing child list counts as empty, an empty list does not.
is_empty_child_NoneOnly(child) ==
    ~child.is_file /\ child.children = None

is_empty_child(child) ==
    ~child.is_file /\ Len(child.children) = 0

\* The loop body of _generate_tree(folder) from entry i on.
RECURSIVE generate_tree_from(_, _, _)
generate_tree_from(f, folder, i) ==
    IF i > Len(f[folder]) THEN << >>
    ELSE LET entry == f[folder][i]
             rest  == generate_tree_from(f, folder, i + 1)
         IN  IF entry.is_dir
             THEN LET child == TreeNode(NodeName("FOLDER", entry.stem, <<>>, ""), FALSE,
                                        EntryPath(folder, entry),
                                        generate_tree_from(f, Append(folder, entry.stem), 1))
                  IN  IF is_empty_child(child) THEN rest ELSE <<child>> \o rest
             ELSE IF Lower(entry.suffix) \in RomSuffixes
                  THEN <<TreeNode(NodeName("FILE", entry.stem, entry.stamps, entry.suffix), TRUE,
                                  EntryPath(folder, entry), << >>)>> \o rest
                  ELSE rest

\* One mount root of _generate_tree(None).
sd_child(f, label, roms_path) ==
    IF roms_path \in DOMAIN f
    THEN LET child == TreeNode(NodeName("SD_CARD", label, <<>>, ""), FALSE, DirPath(roms_path),
                               generate_tree_from(f, roms_path, 1))
         IN  IF is_empty_child(child) THEN << >> ELSE <<child>>
    ELSE << >>

generate_tree(f) ==
    sd_child(f, "SD1", sd1_roms_path) \o sd_child(f, "SD2", sd2_roms_path)

\* Mutant: the rebuild scans the first card only.
reload_tree_Sd1Only(f) ==
    TreeNode(NodeName("", "root", <<>>, ""), FALSE, RootPath,
             sd_child(f, "SD1", sd1_roms_path))

\* TreeNode(name="root", path=Path("/"), children=self._generate_tree())
reload_tree(f) == TreeNode(NodeName("", "root", <<>>, ""), FALSE, RootPath, generate_tree(f))

(***************************************************************************)
(* State                                                                   *)
(***************************************************************************)
VARIABLES
    current_step,          \* AppStatus.current_step
    exit_menu_status,      \* AppStatus.exit_menu_status
    select_rom_status,     \* AppStatus.select_rom_status
    randomize_rom_status,  \* AppStatus.randomize_rom_status
    running,               \* App.running
    uiPc,                  \* where the main thread is
    exit_codes,            \* the exit codes main's destroy() was called with
    workers,               \* the _patch_rom threads started so far
    fs,                    \* the filesystem
    clock,                 \* datetime.now()
    keys_pressed,          \* Input._keys_pressed
    keys_held,             \* Input._keys_held
    keys_held_start_time,  \* Input._keys_held_start_time
    time,                  \* time.time(), in milliseconds
    inputPc,               \* where the main thread is in its use of Input
    polled,                \* the last call of Input.key and what it returned
    presses                \* per button, the history the input claims speak of

AppVars == << current_step, exit_menu_status, select_rom_status,
              randomize_rom_status, running, uiPc, exit_codes, workers, fs, clock >>
InputVars == << keys_pressed, keys_held, keys_held_start_time, time, inputPc,
                polled, presses >>
vars == << AppVars, InputVars >>

SELECT_ROM    == 0
RANDOMIZE_ROM == 1

Buttons == {"MENUF", "DPAD_UP", "DPAD_DOWN", "A", "B"}

\* The main thread is inside RandomizeROM.handle_navigation, between
\* Thread.start() and the assignment is_running = True: it holds
\* _is_running_lock and _is_finished_lock.
UiHoldsRunLocks == uiPc = "starting"

\* The process is alive: daemon threads stop when the main thread has left.
Alive == uiPc \notin {"exited", "crashed"}

ExitMenuStatus(exit, show, selected_item) ==
    [exit |-> exit, show |-> show, selected_item |-> selected_item]

SelectROMStatus_init(f) ==
    LET tree == TreeNode(NodeName("", "root", <<>>, ""), FALSE, RootPath,
                         generate_tree(f))
    IN  [tree |-> tree, selected_rom |-> None, selections |-> << >>,
         current_selection |-> 0, current_dir |-> tree]

RandomizeROMStatus(is_running, is_finished, logs) ==
    [is_running |-> is_running, is_finished |-> is_finished, logs |-> logs]

\* The history kept per button: since is the time of the press that made
\* the button held, -1 once it has been released; awaiting tells that no
\* poll has followed that press yet; pressed_at is the time of the last
\* press event and phase tells whether the button is still down after it
\* or was released before ("early") or after ("late") the repeat delay;
\* trues counts, up to 2, the polls that returned True since that event.
NoPress ==
    [since |-> -1, awaiting |-> FALSE, pressed_at |-> -1, phase |-> "none",
     trues |-> 0]
NoPoll == [key |-> "", is_pressed |-> FALSE, first |-> FALSE, held_for |-> -1]

\* The positions of the main thread in its use of Input: before the i-th
\* poll of a frame, before clear_pressed, after destroy, after a KeyError.
PollAt(i)    == << "poll", i >>
Clearing     == << "clear", 0 >>
Destroyed    == << "destroyed", 0 >>
InputCrashed == << "crashed", 0 >>

\* Input.__init__
Input_init ==
    /\ keys_pressed = {}
    /\ keys_held = {}
    /\ keys_held_start_time = << >>
    /\ time = 0
    /\ inputPc = PollAt(1)
    /\ polled = NoPoll
    /\ presses = [k \in Buttons |-> NoPress]

Init ==
    /\ Input_init
    /\ fs \in InitialFilesystems
    /\ clock = 0
    /\ current_step = SELECT_ROM
    /\ exit_menu_status = ExitMenuStatus(FALSE, FALSE, 1)
    /\ select_rom_status = SelectROMStatus_init(fs)
    /\ randomize_rom_status = RandomizeROMStatus(FALSE, FALSE, << >>)
    /\ running = TRUE
    /\ uiPc = "frame"
    /\ exit_codes = << >>
    /\ workers = << >>

(***************************************************************************)
(* Python list indexing: children[i] raises IndexError outside -len..len-1 *)
(***************************************************************************)
IndexOk(seq, i) == -Len(seq) <= i /\ i < Len(seq)
Index(seq, i)   == IF i >= 0 THEN seq[i + 1] ELSE seq[Len(seq) + i + 1]

(***************************************************************************)
(* AppStatus.next_step / previous_step                                     *)
(***************************************************************************)
\* Mutant: next_step leaves the step where it is.
next_step_Stays == current_step' = current_step

next_step ==
    current_step' = IF current_step = SELECT_ROM THEN RANDOMIZE_ROM
                    ELSE RANDOMIZE_ROM

\* Mutant: previous_step goes back to the tree that was built before.
previous_step_NoReload ==
    IF current_step = RANDOMIZE_ROM
    THEN /\ select_rom_status' =
               [tree |-> select_rom_status.tree,
                current_dir |-> select_rom_status.tree, selections |-> << >>,
                selected_rom |-> None, current_selection |-> 0]
         /\ randomize_rom_status' = RandomizeROMStatus(FALSE, FALSE, << >>)
         /\ current_step' = SELECT_ROM
    ELSE UNCHANGED << select_rom_status, randomize_rom_status, current_step >>

\* Mutant: going back keeps the chosen ROM.
previous_step_KeepsChosenRom ==
    IF current_step = RANDOMIZE_ROM
    THEN LET tree == reload_tree(fs)
         IN  /\ select_rom_status' =
                   [tree |-> tree, current_dir |-> tree, selections |-> << >>,
                    selected_rom |-> select_rom_status.selected_rom,
                    current_selection |-> 0]
             /\ randomize_rom_status' = RandomizeROMStatus(FALSE, FALSE, << >>)
             /\ current_step' = SELECT_ROM
    ELSE UNCHANGED << select_rom_status, randomize_rom_status, current_step >>

previous_step ==
    IF current_step = RANDOMIZE_ROM
    THEN LET tree == reload_tree(fs)
         IN  /\ select_rom_status' =
                   [tree |-> tree, current_dir |-> tree, selections |-> << >>,
                    selected_rom |-> None, current_selection |-> 0]
             /\ randomize_rom_status' = RandomizeROMStatus(FALSE, FALSE, << >>)
             /\ current_step' = SELECT_ROM
    ELSE UNCHANGED << select_rom_status, randomize_rom_status, current_step >>

(***************************************************************************)
(* ExitMenu.handle_navigation.  keys is the set of buttons for which       *)
(* Input.key would return True in this frame; the elif chain polls them in *)
(* order and stops at the first active one.                                *)
(***************************************************************************)
\* Mutant: cancelling the overlay also goes back to the first screen.
ExitMenu_handle_navigation_CancelGoesBack(keys) ==
    /\ exit_menu_status' =
          IF "DPAD_UP" \in keys
          THEN [exit_menu_status EXCEPT !.selected_item = (@ - 1) % 2]
          ELSE IF "DPAD_DOWN" \in keys
          THEN [exit_menu_status EXCEPT !.selected_item = (@ + 1) % 2]
          ELSE IF "A" \in keys
          THEN IF exit_menu_status.selected_item = 0
               THEN [exit_menu_status EXCEPT !.exit = TRUE, !.selected_item = 1]
               ELSE [exit_menu_status EXCEPT !.show = FALSE, !.selected_item = 1]
          ELSE exit_menu_status
    /\ current_step' =
          IF /\ keys \cap {"DPAD_UP", "DPAD_DOWN"} = {}
             /\ "A" \in keys
             /\ exit_menu_status.selected_item # 0
          THEN SELECT_ROM ELSE current_step
    /\ UNCHANGED << select_rom_status, randomize_rom_status, workers, uiPc >>

\* Mutant: the highlighted option is not put back to 1 after a selection.
ExitMenu_handle_navigation_KeepsHighlight(keys) ==
    /\ exit_menu_status' =
          IF "DPAD_UP" \in keys
          THEN [exit_menu_status EXCEPT !.selected_item = (@ - 1) % 2]
          ELSE IF "DPAD_DOWN" \in keys
          THEN [exit_menu_status EXCEPT !.selected_item = (@ + 1) % 2]
          ELSE IF "A" \in keys
          THEN IF exit_menu_status.selected_item = 0
               THEN [exit_menu_status EXCEPT !.exit = TRUE]
               ELSE [exit_menu_status EXCEPT !.show = FALSE]
          ELSE exit_menu_status
    /\ UNCHANGED << current_step, select_rom_status, randomize_rom_status,
                    workers, uiPc >>

\* Mutant: up and down step the highlight without the wraparound over 2.
ExitMenu_handle_navigation_NoWrap(keys) ==
    /\ exit_menu_status' =
          IF "DPAD_UP" \in keys
          THEN [exit_menu_status EXCEPT !.selected_item = @ - 1]
          ELSE IF "DPAD_DOWN" \in keys
          THEN [exit_menu_status EXCEPT !.selected_item = @ + 1]
          ELSE IF "A" \in keys
          THEN IF exit_menu_status.selected_item = 0
               THEN [exit_menu_status EXCEPT !.exit = TRUE, !.selected_item = 1]
               ELSE [exit_menu_status EXCEPT !.show = FALSE, !.selected_item = 1]
          ELSE exit_menu_status
    /\ UNCHANGED << current_step, select_rom_status, randomize_rom_status,
                    workers, uiPc >>

ExitMenu_handle_navigation(keys) ==
    /\ exit_menu_status' =
          IF "DPAD_UP" \in keys
          THEN [exit_menu_status EXCEPT !.selected_item = (@ - 1) % 2]
          ELSE IF "DPAD_DOWN" \in keys
          THEN [exit_menu_status EXCEPT !.selected_item = (@ + 1) % 2]
          ELSE IF "A" \in keys
          THEN IF exit_menu_status.selected_item = 0
               THEN [exit_menu_status EXCEPT !.exit = TRUE, !.selected_item = 1]
               ELSE [exit_menu_status EXCEPT !.show = FALSE, !.selected_item = 1]
          ELSE exit_menu_status
    /\ UNCHANGED << current_step, select_rom_status, randomize_rom_status,
                    workers, uiPc >>

(***************************************************************************)
(* SelectROM.handle_navigation                                             *)
(***************************************************************************)
\* Mutant: back leaves current_dir at the tree's root without the walk.
walk_selections_StaysAtRoot(dir, selections, i) == dir

\* for entry in selections: for children in current_dir.children:
\*     if entry.path == children.path: current_dir = children; break
RECURSIVE walk_selections(_, _, _)
walk_selections(dir, selections, i) ==
    IF i > Len(selections) THEN dir
    ELSE LET hits == {k \in 1..Len(dir.children) :
                          dir.children[k].path = selections[i].path}
         IN  IF hits = {} THEN walk_selections(dir, selections, i + 1)
             ELSE walk_selections(
                      dir.children[CHOOSE k \in hits : \A m \in hits : k <= m],
                      selections, i + 1)

SelectROM_handle_navigation(keys) ==
    LET st       == select_rom_status
        children == st.current_dir.children
    IN
    /\ UNCHANGED << exit_menu_status, randomize_rom_status, workers >>
    /\ IF "DPAD_UP" \in keys
       THEN /\ select_rom_status' =
                  [st EXCEPT !.current_selection =
                      IF st.current_selection - 1 < 0 THEN Len(children) - 1
                      ELSE st.current_selection - 1]
            /\ UNCHANGED << current_step, uiPc >>
       ELSE IF "DPAD_DOWN" \in keys
       THEN /\ select_rom_status' =
                  [st EXCEPT !.current_selection =
                      IF st.current_selection + 1 >= Len(children) THEN 0
                      ELSE st.current_selection + 1]
            /\ UNCHANGED << current_step, uiPc >>
       ELSE IF "A" \in keys
       THEN IF ~IndexOk(children, st.current_selection)
            THEN \* IndexError leaves handle_navigation, update and main
                 /\ uiPc' = "crashed"
                 /\ UNCHANGED << current_step, select_rom_status >>
            ELSE LET selected_child == Index(children, st.current_selection)
                 IN  IF selected_child.is_file
                     THEN /\ select_rom_status' =
                                [st EXCEPT !.selections = Append(@, selected_child),
                                           !.selected_rom = selected_child.path]
                          /\ next_step
                          /\ UNCHANGED uiPc
                     ELSE /\ select_rom_status' =
                                [st EXCEPT !.selections = Append(@, selected_child),
                                           !.current_dir = selected_child,
                                           !.current_selection = 0]
                          /\ UNCHANGED << current_step, uiPc >>
       ELSE IF "B" \in keys
       THEN IF st.current_dir.path # RootPath
            THEN IF Len(st.selections) = 0
                 THEN \* list.pop() on an empty list raises IndexError
                      /\ uiPc' = "crashed"
                      /\ UNCHANGED << current_step, select_rom_status >>
                 ELSE LET popped == SubSeq(st.selections, 1, Len(st.selections) - 1)
                      IN  /\ select_rom_status' =
                                [st EXCEPT !.selections = popped,
                                           !.current_dir = walk_selections(st.tree, popped, 1),
                                           !.current_selection = 0]
                          /\ UNCHANGED << current_step, uiPc >>
            ELSE UNCHANGED << current_step, select_rom_status, uiPc >>
       ELSE UNCHANGED << current_step, select_rom_status, uiPc >>

(***************************************************************************)
(* RandomizeROM.handle_navigation.  On A the handler takes                 *)
(* _is_running_lock and _is_finished_lock, starts the thread and only then *)
(* assigns is_running = True (RandomizeROM_started below).                 *)
(***************************************************************************)
\* The locals of a thread that has just been started.  invoked is "" before
\* subprocess.run, then "ok" or "failed"; found is
\* len(files_in_output_dir); message is the text of the failure, if any;
\* held is the sequence of the locks the thread holds, in the order it
\* acquired them (used where the with blocks are taken lock by lock).
NewWorker ==
    [pc |-> "mkdtemp", orig_rom_path |-> None, temp_dir |-> FALSE,
     now |-> 0, message |-> "", invoked |-> "", found |-> 0, held |-> << >>]

\* A thread that has ended: its locals are gone, its temp directory too.
Terminated(how) == [NewWorker EXCEPT !.pc = how]
\* A thread that is leaving the with block: only the temp directory is left.
Leaving(how) == [NewWorker EXCEPT !.pc = how, !.temp_dir = TRUE]

\* Mutant: the handler starts a thread whenever the run is not finished,
\* without testing is_running.
RandomizeROM_handle_navigation_NoRunningCheck(keys) ==
    /\ UNCHANGED exit_menu_status
    /\ IF "A" \in keys
       THEN IF randomize_rom_status.is_finished
            THEN UNCHANGED << current_step, select_rom_status,
                              randomize_rom_status, workers, uiPc >>
            ELSE /\ Len(workers) < MaxSpawn
                 /\ workers' = Append(workers, NewWorker)
                 /\ uiPc' = "starting"
                 /\ UNCHANGED << current_step, select_rom_status,
                                 randomize_rom_status >>
       ELSE IF "B" \in keys
       THEN IF ~randomize_rom_status.is_running
            THEN previous_step /\ UNCHANGED << workers, uiPc >>
            ELSE UNCHANGED << current_step, select_rom_status,
                              randomize_rom_status, workers, uiPc >>
       ELSE UNCHANGED << current_step, select_rom_status,
                         randomize_rom_status, workers, uiPc >>

\* Mutant: B goes back without testing is_running.
RandomizeROM_handle_navigation_BackAlways(keys) ==
    /\ UNCHANGED exit_menu_status
    /\ IF "A" \in keys
       THEN IF randomize_rom_status.is_finished
            THEN UNCHANGED << current_step, select_rom_status,
                              randomize_rom_status, workers, uiPc >>
            ELSE IF ~randomize_rom_status.is_running
            THEN /\ Len(workers) < MaxSpawn
                 /\ workers' = Append(workers, NewWorker)
                 /\ uiPc' = "starting"
                 /\ UNCHANGED << current_step, select_rom_status,
                                 randomize_rom_status >>
            ELSE UNCHANGED << current_step, select_rom_status,
                              randomize_rom_status, workers, uiPc >>
       ELSE IF "B" \in keys
       THEN previous_step /\ UNCHANGED << workers, uiPc >>
       ELSE UNCHANGED << current_step, select_rom_status,
                         randomize_rom_status, workers, uiPc >>

\* Mutant: the handler starts a thread whenever no run is going, without
\* testing is_finished.
RandomizeROM_handle_navigation_NoFinishedCheck(keys) ==
    /\ UNCHANGED exit_menu_status
    /\ IF "A" \in keys
       THEN IF ~randomize_rom_status.is_running
            THEN /\ Len(workers) < MaxSpawn
                 /\ workers' = Append(workers, NewWorker)
                 /\ uiPc' = "starting"
                 /\ UNCHANGED << current_step, select_rom_status,
                                 randomize_rom_status >>
            ELSE UNCHANGED << current_step, select_rom_status,
                              randomize_rom_status, workers, uiPc >>
       ELSE IF "B" \in keys
       THEN IF ~randomize_rom_status.is_running
            THEN previous_step /\ UNCHANGED << workers, uiPc >>
            ELSE UNCHANGED << current_step, select_rom_status,
                              randomize_rom_status, workers, uiPc >>
       ELSE UNCHANGED << current_step, select_rom_status,
                         randomize_rom_status, workers, uiPc >>

RandomizeROM_handle_navigation(keys) ==
    /\ UNCHANGED exit_menu_status
    /\ IF "A" \in keys
       THEN IF randomize_rom_status.is_finished
            THEN UNCHANGED << current_step, select_rom_status,
                              randomize_rom_status, workers, uiPc >>
            ELSE IF ~randomize_rom_status.is_running
            THEN /\ Len(workers) < MaxSpawn
                 /\ workers' = Append(workers, NewWorker)
                 /\ uiPc' = "starting"
                 /\ UNCHANGED << current_step, select_rom_status,
                                 randomize_rom_status >>
            ELSE UNCHANGED << current_step, select_rom_status,
                              randomize_rom_status, workers, uiPc >>
       ELSE IF "B" \in keys
       THEN IF ~randomize_rom_status.is_running
            THEN previous_step /\ UNCHANGED << workers, uiPc >>
            ELSE UNCHANGED << current_step, select_rom_status,
                              randomize_rom_status, workers, uiPc >>
       ELSE UNCHANGED << current_step, select_rom_status,
                         randomize_rom_status, workers, uiPc >>

(***************************************************************************)
(* View.handle_navigation                                                  *)
(***************************************************************************)
\* Mutant: toggling the overlay leaves the highlighted option as it was.
View_handle_navigation_KeepsHighlight(keys) ==
    IF "MENUF" \in keys
    THEN /\ exit_menu_status' = [exit_menu_status EXCEPT !.show = ~@]
         /\ UNCHANGED << current_step, select_rom_status, randomize_rom_status,
                         workers, uiPc >>
    ELSE IF exit_menu_status.show
    THEN ExitMenu_handle_navigation(keys)
    ELSE IF current_step = SELECT_ROM
    THEN SelectROM_handle_navigation(keys)
    ELSE RandomizeROM_handle_navigation(keys)

\* Mutant: the overlay does not capture the input; the handler of the
\* current step runs although the overlay is shown.
View_handle_navigation_NotModal(keys) ==
    IF "MENUF" \in keys
    THEN /\ exit_menu_status' =
               [exit_menu_status EXCEPT !.selected_item = 1, !.show = ~@]
         /\ UNCHANGED << current_step, select_rom_status, randomize_rom_status,
                         workers, uiPc >>
    ELSE IF current_step = SELECT_ROM
    THEN SelectROM_handle_navigation(keys)
    ELSE RandomizeROM_handle_navigation(keys)

View_handle_navigation(keys) ==
    IF "MENUF" \in keys
    THEN /\ exit_menu_status' =
               [exit_menu_status EXCEPT !.selected_item = 1, !.show = ~@]
         /\ UNCHANGED << current_step, select_rom_status, randomize_rom_status,
                         workers, uiPc >>
    ELSE IF exit_menu_status.show
    THEN ExitMenu_handle_navigation(keys)
    ELSE IF current_step = SELECT_ROM
    THEN SelectROM_handle_navigation(keys)
    ELSE RandomizeROM_handle_navigation(keys)

(***************************************************************************)
(* App.update / App._handle_navigation / main loop                         *)
(***************************************************************************)
\* Mutant: _handle_navigation does not look at exit_menu_status.exit.
Update_IgnoresExit(keys) ==
    /\ uiPc = "frame"
    /\ running
    /\ View_handle_navigation(keys)
    /\ running' = running
    /\ UNCHANGED << exit_codes, fs, clock, InputVars >>

\* One iteration of `while app.running: app.update()` with the given polls.
Update(keys) ==
    /\ uiPc = "frame"
    /\ running
    /\ View_handle_navigation(keys)
    /\ running' = IF uiPc' = "frame" /\ exit_menu_status'.exit THEN FALSE
                  ELSE running
    /\ UNCHANGED << exit_codes, fs, clock, InputVars >>

Frame == \E keys \in SUBSET Buttons : Update(keys)

\* The rest of the frame that started a worker: is_running = True, the
\* locks are released, _handle_navigation tests exit_menu_status.exit.
RandomizeROM_started ==
    /\ uiPc = "starting"
    /\ randomize_rom_status' = [randomize_rom_status EXCEPT !.is_running = TRUE]
    /\ uiPc' = "frame"
    /\ running' = IF exit_menu_status.exit THEN FALSE ELSE running
    /\ UNCHANGED << current_step, exit_menu_status, select_rom_status,
                    exit_codes, workers, fs, clock, InputVars >>

\* App._monitor_input on SDL_QUIT
Quit ==
    /\ Alive
    /\ running
    /\ running' = FALSE
    /\ UNCHANGED << current_step, exit_menu_status, select_rom_status,
                    randomize_rom_status, uiPc, exit_codes, workers, fs, clock,
                    InputVars >>

\* main: the loop has ended, destroy(app, 0)
Destroy ==
    /\ uiPc = "frame"
    /\ ~running
    /\ uiPc' = "exited"
    /\ exit_codes' = Append(exit_codes, 0)
    /\ UNCHANGED << current_step, exit_menu_status, select_rom_status,
                    randomize_rom_status, running, workers, fs, clock, InputVars >>

(***************************************************************************)
(* RandomizeROM._patch_rom, one thread per element of workers.             *)
(* The log text is the sequence of the pieces written to it; nl tells      *)
(* whether the piece ends with a newline.                                  *)
(***************************************************************************)
LogPiece(prefix, text, path, nl) ==
    [prefix |-> prefix, text |-> text, path |-> path, nl |-> nl]

SetWorker(w, rec) == workers' = [workers EXCEPT ![w] = rec]

At(w, pc) == Alive /\ w \in 1..Len(workers) /\ workers[w].pc = pc

UiState == << current_step, exit_menu_status, select_rom_status,
              running, uiPc, exit_codes, InputVars >>

\* with TemporaryDirectory() as temp_dir:   (mkdtemp may raise OSError)
patch_mkdtemp(w) ==
    /\ At(w, "mkdtemp")
    /\ \/ SetWorker(w, [workers[w] EXCEPT !.pc = "read_rom", !.temp_dir = TRUE])
       \/ SetWorker(w, Terminated("raised"))
    /\ UNCHANGED << UiState, randomize_rom_status, fs, clock >>

\* orig_rom_path = status.select_rom_status.selected_rom; if it is None
patch_read_rom(w) ==
    /\ At(w, "read_rom")
    /\ LET orig == select_rom_status.selected_rom
       IN  IF orig = None
           THEN SetWorker(w, [workers[w] EXCEPT !.orig_rom_path = orig,
                                 !.message = "No ROM selected.",
                                 !.pc = "log_validation"])
           ELSE SetWorker(w, [workers[w] EXCEPT !.orig_rom_path = orig,
                                 !.pc = "check_rom"])
    /\ UNCHANGED << UiState, randomize_rom_status, fs, clock >>

\* if not orig_rom_path.exists()
patch_check_rom(w) ==
    /\ At(w, "check_rom")
    /\ IF ~PathExists(fs, workers[w].orig_rom_path)
       THEN SetWorker(w, [workers[w] EXCEPT !.message = "ROM not found",
                             !.pc = "log_validation"])
       ELSE SetWorker(w, [workers[w] EXCEPT !.pc = "copy_src"])
    /\ UNCHANGED << UiState, randomize_rom_status, fs, clock >>

\* copyfile(orig_rom_path, src_rom_path), outside the try block: an OSError
\* leaves the with block and the thread.
patch_copy_src(w) ==
    /\ At(w, "copy_src")
    /\ \/ /\ PathExists(fs, workers[w].orig_rom_path)
          /\ SetWorker(w, [workers[w] EXCEPT !.pc = "check_config"])
       \/ SetWorker(w, Leaving("unwind"))
    /\ UNCHANGED << UiState, randomize_rom_status, fs, clock >>

\* if not config_path.exists()
patch_check_config(w) ==
    /\ At(w, "check_config")
    /\ \E exists \in BOOLEAN :
          IF ~exists
          THEN SetWorker(w, [workers[w] EXCEPT !.message = "No configuration found",
                                !.pc = "log_validation"])
          ELSE SetWorker(w, [workers[w] EXCEPT !.pc = "check_bin"])
    /\ UNCHANGED << UiState, randomize_rom_status, fs, clock >>

\* if not bin_path.exists()
patch_check_bin(w) ==
    /\ At(w, "check_bin")
    /\ \E exists \in BOOLEAN :
          IF ~exists
          THEN SetWorker(w, [workers[w] EXCEPT !.message = "Randomizer binary not found",
                                !.pc = "log_validation"])
          ELSE SetWorker(w, [workers[w] EXCEPT !.pc = "log_start"])
    /\ UNCHANGED << UiState, randomize_rom_status, fs, clock >>

\* with self._logs_lock: status.randomize_rom_status.logs = message
patch_log_validation(w) ==
    /\ At(w, "log_validation")
    /\ randomize_rom_status' =
          [randomize_rom_status EXCEPT
              !.logs = << LogPiece("", workers[w].message,
                                   workers[w].orig_rom_path, FALSE) >>]
    /\ SetWorker(w, [workers[w] EXCEPT !.pc = "clear_running"])
    /\ UNCHANGED << UiState, fs, clock >>

\* Mutant: an early return marks the run finished as well.
patch_clear_running_MarksFinished(w) ==
    /\ At(w, "clear_running")
    /\ ~UiHoldsRunLocks
    /\ randomize_rom_status' =
          [randomize_rom_status EXCEPT !.is_running = FALSE, !.is_finished = TRUE]
    /\ SetWorker(w, Leaving("cleanup"))
    /\ UNCHANGED << UiState, fs, clock >>

\* Mutant: an early return forgets the chosen ROM as well.
patch_clear_running_ClearsChosenRom(w) ==
    /\ At(w, "clear_running")
    /\ ~UiHoldsRunLocks
    /\ randomize_rom_status' = [randomize_rom_status EXCEPT !.is_running = FALSE]
    /\ select_rom_status' = [select_rom_status EXCEPT !.selected_rom = None]
    /\ SetWorker(w, Leaving("cleanup"))
    /\ UNCHANGED << current_step, exit_menu_status, running, uiPc, exit_codes,
                    InputVars, fs, clock >>

\* with self._is_running_lock: is_running = False; return
patch_clear_running(w) ==
    /\ At(w, "clear_running")
    /\ ~UiHoldsRunLocks
    /\ randomize_rom_status' = [randomize_rom_status EXCEPT !.is_running = FALSE]
    /\ SetWorker(w, Leaving("cleanup"))
    /\ UNCHANGED << UiState, fs, clock >>

\* now = datetime.now(); logs += "Starting randomization\n".  Time is read
\* only here; two runs are more than the one-second resolution of the
\* "%Y%m%d%H%M%S" stamp apart, so every reading is later than the last.
patch_log_start(w) ==
    /\ At(w, "log_start")
    /\ clock' = clock + 1
    /\ SetWorker(w, [workers[w] EXCEPT !.now = clock, !.pc = "run"])
    /\ randomize_rom_status' =
          [randomize_rom_status EXCEPT
              !.logs = Append(@, LogPiece("", "Starting randomization", None, TRUE))]
    /\ UNCHANGED << UiState, fs >>

\* subprocess.run(command, check=True, ...): returns, leaving some number of
\* files next to the source copy, or raises
patch_run(w) ==
    /\ At(w, "run")
    /\ \/ \E n \in 0..2 :
             SetWorker(w, [workers[w] EXCEPT !.invoked = "ok", !.found = n,
                              !.pc = "scan"])
       \/ SetWorker(w, [workers[w] EXCEPT !.invoked = "failed",
                           !.message = "process failed", !.pc = "log_error"])
    /\ UNCHANGED << UiState, randomize_rom_status, fs, clock >>

\* Mutant: only an empty output directory is an error.
patch_scan_AnyCount(w) ==
    /\ At(w, "scan")
    /\ IF workers[w].found = 0
       THEN SetWorker(w, [workers[w] EXCEPT !.message = "Expected one file",
                             !.pc = "log_error"])
       ELSE SetWorker(w, [workers[w] EXCEPT !.pc = "copy_out"])
    /\ UNCHANGED << UiState, randomize_rom_status, fs, clock >>

\* if len(files_in_output_dir) != 1: raise Exception(message)
patch_scan(w) ==
    /\ At(w, "scan")
    /\ IF workers[w].found # 1
       THEN SetWorker(w, [workers[w] EXCEPT !.message = "Expected one file",
                             !.pc = "log_error"])
       ELSE SetWorker(w, [workers[w] EXCEPT !.pc = "copy_out"])
    /\ UNCHANGED << UiState, randomize_rom_status, fs, clock >>

rom_extension(p) == Lower(p.suffix)
out_rom_path(wk) ==
    WithRandomizedSuffix(wk.orig_rom_path, wk.now, rom_extension(wk.orig_rom_path))

\* The filesystem after a file has been written at path p.
WriteFile(f, p) ==
    IF PathExists(f, p) \/ p.dir \notin DOMAIN f THEN f
    ELSE [f EXCEPT ![p.dir] = Append(@, [is_dir |-> FALSE, stem |-> p.stem,
                                        suffix |-> p.suffix, stamps |-> p.stamps])]

\* Mutant: a failed copy of the output is not noticed.
patch_copy_out_Unchecked(w) ==
    /\ At(w, "copy_out")
    /\ \/ /\ workers[w].orig_rom_path.dir \in DOMAIN fs
          /\ fs' = WriteFile(fs, out_rom_path(workers[w]))
       \/ UNCHANGED fs
    /\ SetWorker(w, [workers[w] EXCEPT !.pc = "log_success"])
    /\ UNCHANGED << UiState, randomize_rom_status, clock >>

\* copyfile(dst_rom_path, out_rom_path), inside the try block
patch_copy_out(w) ==
    /\ At(w, "copy_out")
    /\ \/ /\ workers[w].orig_rom_path.dir \in DOMAIN fs
          /\ fs' = WriteFile(fs, out_rom_path(workers[w]))
          /\ SetWorker(w, [workers[w] EXCEPT !.pc = "log_success"])
       \/ /\ UNCHANGED fs
          /\ SetWorker(w, [workers[w] EXCEPT !.message = "copy failed",
                              !.pc = "log_error"])
    /\ UNCHANGED << UiState, randomize_rom_status, clock >>

\* Mutant: the success is not written to the log.
patch_log_success_SkipsLog(w) ==
    /\ At(w, "log_success")
    /\ SetWorker(w, [workers[w] EXCEPT !.pc = "finish"])
    /\ UNCHANGED << UiState, randomize_rom_status, fs, clock >>

\* logs += "[SUCCESS] Randomization completed.\nRandomized ROM saved to: ...\n"
patch_log_success(w) ==
    /\ At(w, "log_success")
    /\ randomize_rom_status' =
          [randomize_rom_status EXCEPT
              !.logs = @ \o << LogPiece("[SUCCESS]", "Randomization completed", None, TRUE),
                               LogPiece("", "Randomized ROM saved to",
                                        out_rom_path(workers[w]), TRUE) >>]
    /\ SetWorker(w, [workers[w] EXCEPT !.pc = "finish"])
    /\ UNCHANGED << UiState, fs, clock >>

\* Mutant: the failure is logged without the error prefix.
patch_log_error_NoPrefix(w) ==
    /\ At(w, "log_error")
    /\ randomize_rom_status' =
          [randomize_rom_status EXCEPT
              !.logs = Append(@, LogPiece("", workers[w].message, None, TRUE))]
    /\ SetWorker(w, [workers[w] EXCEPT !.pc = "finish"])
    /\ UNCHANGED << UiState, fs, clock >>

\* except Exception as e: logs += f"[ERROR] Randomization failed: {e}\n"
patch_log_error(w) ==
    /\ At(w, "log_error")
    /\ randomize_rom_status' =
          [randomize_rom_status EXCEPT
              !.logs = Append(@, LogPiece("[ERROR]", workers[w].message, None, TRUE))]
    /\ SetWorker(w, [workers[w] EXCEPT !.pc = "finish"])
    /\ UNCHANGED << UiState, fs, clock >>

\* Mutant: the last block sets is_finished and forgets is_running.
patch_finish_KeepsRunning(w) ==
    /\ At(w, "finish")
    /\ ~UiHoldsRunLocks
    /\ randomize_rom_status' = [randomize_rom_status EXCEPT !.is_finished = TRUE]
    /\ SetWorker(w, Leaving("cleanup"))
    /\ UNCHANGED << UiState, fs, clock >>

\* with self._is_running_lock, self._is_finished_lock:
\*     is_running = False; is_finished = True
patch_finish(w) ==
    /\ At(w, "finish")
    /\ ~UiHoldsRunLocks
    /\ randomize_rom_status' =
          [randomize_rom_status EXCEPT !.is_running = FALSE, !.is_finished = TRUE]
    /\ SetWorker(w, Leaving("cleanup"))
    /\ UNCHANGED << UiState, fs, clock >>

\* TemporaryDirectory.__exit__ on return: the directory is removed and the
\* thread function returns
patch_cleanup(w) ==
    /\ At(w, "cleanup")
    /\ SetWorker(w, Terminated("returned"))
    /\ UNCHANGED << UiState, randomize_rom_status, fs, clock >>

\* Mutant: the directory is removed on return only (mkdtemp and a removal at
\* the end of the function instead of the with block).
patch_unwind_LeavesTempDir(w) ==
    /\ At(w, "unwind")
    /\ SetWorker(w, Leaving("raised"))
    /\ UNCHANGED << UiState, randomize_rom_status, fs, clock >>

\* TemporaryDirectory.__exit__ on an exception: the directory is removed and
\* the exception leaves the thread
patch_unwind(w) ==
    /\ At(w, "unwind")
    /\ SetWorker(w, Terminated("raised"))
    /\ UNCHANGED << UiState, randomize_rom_status, fs, clock >>

patch_rom(w) ==
    \/ patch_mkdtemp(w) \/ patch_read_rom(w) \/ patch_check_rom(w)
    \/ patch_copy_src(w) \/ patch_check_config(w) \/ patch_check_bin(w)
    \/ patch_log_validation(w) \/ patch_clear_running(w)
    \/ patch_log_start(w) \/ patch_run(w) \/ patch_scan(w)
    \/ patch_copy_out(w) \/ patch_log_success(w) \/ patch_log_error(w)
    \/ patch_finish(w) \/ patch_cleanup(w) \/ patch_unwind(w)

(***************************************************************************)
(* Environment                                                             *)
(***************************************************************************)
RemoveAt(seq, i) == SubSeq(seq, 1, i - 1) \o SubSeq(seq, i + 1, Len(seq))

\* A ROM of the card is deleted from outside while the chosen ROM is shown.
EnvRemoveRom ==
    /\ Alive
    /\ current_step = RANDOMIZE_ROM
    /\ \E d \in DOMAIN fs : \E i \in 1..Len(fs[d]) :
          /\ EntryPath(d, fs[d][i]) = select_rom_status.selected_rom
          /\ fs' = [fs EXCEPT ![d] = RemoveAt(@, i)]
    /\ UNCHANGED << UiState, randomize_rom_status, workers, clock >>

Next ==
    \/ Frame
    \/ RandomizeROM_started
    \/ Quit
    \/ Destroy
    \/ \E w \in 1..MaxSpawn : patch_rom(w)
    \/ EnvRemoveRom

Spec == Init /\ [][Next]_vars

TypeOK ==
    /\ current_step \in {SELECT_ROM, RANDOMIZE_ROM}
    /\ uiPc \in {"frame", "starting", "exited", "crashed"}
    /\ Len(workers) <= MaxSpawn

(***************************************************************************)
(* Input (input.py).  The event thread (App._monitor_input) turns the SDL  *)
(* button events into _add_key_pressed and _remove_key_held; the main      *)
(* thread polls Input.key along the elif chain of the handlers and calls   *)
(* clear_pressed at the end of every frame.  Every method holds            *)
(* _input_lock from its first to its last statement, so each is one step.  *)
(* In Spec the polls are abstracted to the set keys of Update and the      *)
(* variables of Input stay as Input.__init__ left them; InputSpec runs the *)
(* two threads on Input alone.                                             *)
(***************************************************************************)
initial_delay == 350     \* self._initial_delay = 0.35, in milliseconds

\* Bounds of the input model.
TickMs  == 175           \* the time between two readings of the clock
MaxTime == 700           \* the clock stops here

\* The buttons the user touches.
EventButtons == {"DPAD_UP", "A"}

\* The polls of one frame, in order: View.handle_navigation polls MENUF,
\* SelectROM.handle_navigation polls the others; the chain ends at the first
\* poll that returns True.
PollChain == << "MENUF", "DPAD_UP", "DPAD_DOWN", "A", "B" >>

\* dict operations on _keys_held_start_time
DictSet(d, k, v) == [x \in DOMAIN d \cup {k} |-> IF x = k THEN v ELSE d[x]]
DictPop(d, k)    == [x \in DOMAIN d \ {k} |-> d[x]]

\* The event thread is alive until the process ends.
EventThreadAlive == inputPc # InputCrashed

\* Input._add_key_pressed, called by check_event on SDL_CONTROLLERBUTTONDOWN
add_key_pressed(key) ==
    /\ EventThreadAlive
    /\ keys_pressed' = keys_pressed \cup {key}
    /\ keys_held' = keys_held \cup {key}
    /\ keys_held_start_time' = DictSet(keys_held_start_time, key, time)
    /\ presses' = [presses EXCEPT ![key] =
          [since      |-> IF key \in keys_held /\ @.since >= 0 THEN @.since ELSE time,
           awaiting   |-> IF key \in keys_held THEN @.awaiting ELSE TRUE,
           pressed_at |-> time,
           phase      |-> "down",
           trues      |-> 0]]
    /\ UNCHANGED << time, inputPc, polled, AppVars >>

\* Mutant: a release forgets the hold-start but leaves the button held.
remove_key_held_KeepsHeld(key) ==
    /\ EventThreadAlive
    /\ keys_held' = keys_held
    /\ keys_held_start_time' = DictPop(keys_held_start_time, key)
    /\ presses' = [presses EXCEPT ![key] =
          IF key \in keys_held
          THEN [@ EXCEPT !.since = -1,
                         !.phase = IF time - presses[key].pressed_at < initial_delay
                                   THEN "early" ELSE "late"]
          ELSE @]
    /\ UNCHANGED << keys_pressed, time, inputPc, polled, AppVars >>

\* Input._remove_key_held, called by check_event on SDL_CONTROLLERBUTTONUP
remove_key_held(key) ==
    /\ EventThreadAlive
    /\ keys_held' = keys_held \ {key}
    /\ keys_held_start_time' = DictPop(keys_held_start_time, key)
    /\ presses' = [presses EXCEPT ![key] =
          IF key \in keys_held
          THEN [@ EXCEPT !.since = -1,
                         !.phase = IF time - presses[key].pressed_at < initial_delay
                                   THEN "early" ELSE "late"]
          ELSE @]
    /\ UNCHANGED << keys_pressed, time, inputPc, polled, AppVars >>

\* Input.check_event for one event of the batch App._monitor_input fetched
check_event ==
    \E key \in EventButtons :
       \/ add_key_pressed(key)
       \/ remove_key_held(key)

\* What Input.key(key) returns; held_time is read only if key is held.
key_result(key) ==
    \/ key \in keys_pressed
    \/ /\ key \in keys_held
       /\ time - keys_held_start_time[key] >= initial_delay

\* The next poll of the chain after the poll at position i returned r.
AfterPoll(i, r) == IF r \/ i = Len(PollChain) THEN Clearing ELSE PollAt(i + 1)

\* Mutant: a held button is active at once, the repeat delay is not waited for.
key_IgnoresDelay(i) ==
    LET k == PollChain[i]
        r == k \in keys_pressed \/ k \in keys_held
    IN  /\ inputPc = PollAt(i)
        /\ keys_pressed' = keys_pressed \ {k}
        /\ polled' = [key |-> k, is_pressed |-> r,
                      first |-> presses[k].awaiting,
                      held_for |-> IF presses[k].since >= 0
                                   THEN time - presses[k].since ELSE -1]
        /\ presses' = [presses EXCEPT ![k] =
              [@ EXCEPT !.awaiting = FALSE,
                        !.trues = IF r /\ @ < 2 THEN @ + 1 ELSE @]]
        /\ inputPc' = AfterPoll(i, r)
        /\ UNCHANGED << keys_held, keys_held_start_time, time, AppVars >>

\* Input.key(PollChain[i]), the i-th poll of the frame
key(i) ==
    LET k == PollChain[i]
    IN  /\ inputPc = PollAt(i)
        /\ IF k \in keys_held /\ k \notin DOMAIN keys_held_start_time
           THEN \* KeyError leaves key, the handler and main
                /\ inputPc' = InputCrashed
                /\ keys_pressed' = keys_pressed \ {k}
                /\ UNCHANGED << polled, presses >>
           ELSE LET r == key_result(k)
                IN  /\ keys_pressed' = keys_pressed \ {k}
                    /\ polled' = [key |-> k, is_pressed |-> r,
                                  first |-> presses[k].awaiting,
                                  held_for |-> IF presses[k].since >= 0
                                               THEN time - presses[k].since ELSE -1]
                    /\ presses' = [presses EXCEPT ![k] =
                          [@ EXCEPT !.awaiting = FALSE,
                                    !.trues = IF r /\ @ < 2 THEN @ + 1 ELSE @]]
                    /\ inputPc' = AfterPoll(i, r)
        /\ UNCHANGED << keys_held, keys_held_start_time, time, AppVars >>

\* Input.clear_pressed, the last call of App.update
clear_pressed ==
    /\ inputPc = Clearing
    /\ keys_pressed' = {}
    /\ polled' = NoPoll
    /\ inputPc' = PollAt(1)
    /\ UNCHANGED << keys_held, keys_held_start_time, time, presses, AppVars >>

\* Input.destroy, called by App.destroy when the loop has ended
Input_destroy ==
    /\ inputPc = PollAt(1)
    /\ keys_pressed' = {}
    /\ keys_held' = {}
    /\ keys_held_start_time' = << >>
    /\ polled' = NoPoll
    /\ presses' = [k \in Buttons |-> NoPress]
    /\ inputPc' = Destroyed
    /\ UNCHANGED << time, AppVars >>

\* time.time() moves on
Tick ==
    /\ time + TickMs <= MaxTime
    /\ time' = time + TickMs
    /\ UNCHANGED << keys_pressed, keys_held, keys_held_start_time, inputPc,
                    polled, presses, AppVars >>

InputInit == Init /\ fs = FsNoRoms

InputNext ==
    \/ check_event
    \/ \E i \in 1..Len(PollChain) : key(i)
    \/ clear_pressed
    \/ Input_destroy
    \/ Tick

InputSpec == InputInit /\ [][InputNext]_vars

(***************************************************************************)
(* The tree builds alone: SelectROMStatus is constructed on one of a       *)
(* family of filesystems, files disappear from outside, and                *)
(* SelectROMStatus.reload_tree builds the tree again.                      *)
(***************************************************************************)
\* The entries a ROMS folder may hold, a "gba" folder may hold, and the
\* folder empty/sub always holds, in enumeration order.
TopEntries  == << DirEntry("gba"), FileEntry("notes", "txt"),
                  FileEntry("a", "GBA"), DirEntry("empty") >>
LeafEntries == << FileEntry("a", "gba"), FileEntry("n", "txt") >>
SubEntries  == << FileEntry("readme", "txt"), FileEntry("deep", "GB") >>

Keep(seq, S) == SelectSeq(seq, LAMBDA e : e \in S)
Elems(seq)   == {seq[i] : i \in 1..Len(seq)}

\* The filesystem with the entries top in SD1's ROMS folder, gba in its
\* "gba" folder, and SD2's ROMS folder, if mounted, holding sd2.
MakeFs(top, gba, mounted, sd2) ==
    LET sd1gba   == Append(sd1_roms_path, "gba")
        sd1empty == Append(sd1_roms_path, "empty")
        sd1sub   == Append(sd1empty, "sub")
        dirs == {sd1_roms_path}
                \cup (IF DirEntry("gba") \in top THEN {sd1gba} ELSE {})
                \cup (IF DirEntry("empty") \in top THEN {sd1empty, sd1sub} ELSE {})
                \cup (IF mounted THEN {sd2_roms_path} ELSE {})
    IN  [d \in dirs |->
            IF d = sd1_roms_path THEN Keep(TopEntries, top)
            ELSE IF d = sd1gba THEN Keep(LeafEntries, gba)
            ELSE IF d = sd1empty THEN << DirEntry("sub") >>
            ELSE IF d = sd1sub THEN SubEntries
            ELSE Keep(LeafEntries, sd2)]

TreeFilesystems ==
    {MakeFs(top, gba, mounted, sd2) :
        top \in SUBSET Elems(TopEntries), gba \in SUBSET Elems(LeafEntries),
        mounted \in BOOLEAN, sd2 \in SUBSET Elems(LeafEntries)}

TreeInit ==
    /\ Input_init
    /\ fs \in TreeFilesystems
    /\ clock = 0
    /\ current_step = SELECT_ROM
    /\ exit_menu_status = ExitMenuStatus(FALSE, FALSE, 1)
    /\ select_rom_status = SelectROMStatus_init(fs)
    /\ randomize_rom_status = RandomizeROMStatus(FALSE, FALSE, << >>)
    /\ running = TRUE
    /\ uiPc = "frame"
    /\ exit_codes = << >>
    /\ workers = << >>

\* SelectROMStatus.reload_tree: self.tree = TreeNode(...)
TreeReload ==
    /\ select_rom_status' = [select_rom_status EXCEPT !.tree = reload_tree(fs)]
    /\ UNCHANGED << current_step, exit_menu_status, randomize_rom_status,
                    running, uiPc, exit_codes, workers, fs, clock, InputVars >>

\* A file is deleted from outside.
TreeEnvRemove ==
    /\ \E d \in DOMAIN fs : \E i \in 1..Len(fs[d]) :
          /\ ~fs[d][i].is_dir
          /\ fs' = [fs EXCEPT ![d] = RemoveAt(@, i)]
    /\ UNCHANGED << current_step, exit_menu_status, select_rom_status,
                    randomize_rom_status, running, uiPc, exit_codes, workers,
                    clock, InputVars >>

TreeNext == TreeReload \/ TreeEnvRemove

TreeSpec == TreeInit /\ [][TreeNext]_vars

(***************************************************************************)
(* Reading the log as RandomizeROM.render does: split at the newlines, a   *)
(* line is coloured by the prefix it starts with.                          *)
(***************************************************************************)
LineStart(logs, i) == i = 1 \/ logs[i - 1].nl
HasLinePrefixed(logs, prefix) ==
    \E i \in 1..Len(logs) : logs[i].prefix = prefix /\ LineStart(logs, i)
HasPiece(logs, prefix) == \E i \in 1..Len(logs) : logs[i].prefix = prefix
CountStarting(logs) ==
    Cardinality({i \in 1..Len(logs) : logs[i].text = "Starting randomization"})

(***************************************************************************)
(* The frames the claims speak of.                                         *)
(***************************************************************************)
OnRandomizeScreen ==
    current_step = RANDOMIZE_ROM /\ ~exit_menu_status.show
OnSelectScreen ==
    current_step = SELECT_ROM /\ ~exit_menu_status.show

\* A frame in which RandomizeROM.handle_navigation finds A active.
StartActivation ==
    /\ OnRandomizeScreen
    /\ \E keys \in SUBSET Buttons :
          "MENUF" \notin keys /\ "A" \in keys /\ Update(keys)

\* A frame in which RandomizeROM.handle_navigation finds B active.
BackActivation ==
    /\ OnRandomizeScreen
    /\ \E keys \in SUBSET Buttons :
          "MENUF" \notin keys /\ "A" \notin keys /\ "B" \in keys /\ Update(keys)

\* A frame in which SelectROM.handle_navigation finds A active.
SelectActivation ==
    /\ OnSelectScreen
    /\ \E keys \in SUBSET Buttons :
          /\ keys \cap {"MENUF", "DPAD_UP", "DPAD_DOWN"} = {}
          /\ "A" \in keys
          /\ Update(keys)

is_running  == randomize_rom_status.is_running
is_finished == randomize_rom_status.is_finished
RunPair     == << randomize_rom_status.is_running, randomize_rom_status.is_finished >>
Live(w)     == workers[w].pc \notin {"returned", "raised"}
Ends(w)     == workers[w].pc # "cleanup" /\ workers'[w].pc = "cleanup"

ValidationMessages ==
    {"No ROM selected.", "ROM not found", "No configuration found",
     "Randomizer binary not found"}
InvocationFailed(wk) ==
    wk.invoked = "failed" \/ (wk.invoked = "ok" /\ wk.found # 1)

(***************************************************************************)
(* C1.  Activating start (A on the RandomizeRom screen) while is_running   *)
(* is true starts no second worker and leaves is_running true; between two *)
(* resets the log holds the 'Starting randomization' line at most once.    *)
(***************************************************************************)
C1_NoSecondWorker ==
    /\ [](CountStarting(randomize_rom_status.logs) <= 1)
    /\ [][(StartActivation /\ is_running)
             => (workers' = workers /\ randomize_rom_status'.is_running)]_vars

C1_Witness ==
    /\ OnRandomizeScreen /\ uiPc = "frame" /\ running
    /\ is_running
    /\ CountStarting(randomize_rom_status.logs) = 1
    /\ \E w \in 1..Len(workers) : workers[w].pc = "run"

(***************************************************************************)
(* C2.  (is_running, is_finished) is never (T,T), and it changes only by   *)
(* start (F,F)->(T,F), validation failure (T,F)->(F,F), full attempt       *)
(* (T,F)->(F,T) and the back reset to (F,F).                               *)
(***************************************************************************)
C2_RunPairTransitions ==
    /\ [](RunPair \in {<<FALSE, FALSE>>, <<TRUE, FALSE>>, <<FALSE, TRUE>>})
    /\ [][RunPair' # RunPair =>
            \/ /\ RunPair = <<FALSE, FALSE>> /\ RunPair' = <<TRUE, FALSE>>
               /\ RandomizeROM_started
            \/ /\ RunPair = <<TRUE, FALSE>> /\ RunPair' = <<FALSE, FALSE>>
               /\ \E w \in 1..Len(workers) : patch_clear_running(w)
            \/ /\ RunPair = <<TRUE, FALSE>> /\ RunPair' = <<FALSE, TRUE>>
               /\ \E w \in 1..Len(workers) : patch_finish(w)
            \/ /\ RunPair' = <<FALSE, FALSE>>
               /\ BackActivation]_vars

C2_Witness ==
    /\ RunPair = <<FALSE, TRUE>>
    /\ current_step = RANDOMIZE_ROM

(***************************************************************************)
(* C3.  A run that hits a validation failure ends with is_running = false, *)
(* is_finished = false and the message in the log, and an activation of    *)
(* start in that state starts a new worker.                                *)
(***************************************************************************)
C3_ValidationFailureRetry ==
    [][/\ \A w \in 1..Len(workers) :
             (workers[w].pc = "clear_running" /\ Ends(w)) =>
                /\ RunPair' = <<FALSE, FALSE>>
                /\ workers[w].message \in ValidationMessages
                /\ Len(randomize_rom_status'.logs) = 1
                /\ randomize_rom_status'.logs[1].text = workers[w].message
       /\ (StartActivation /\ RunPair = <<FALSE, FALSE>>) =>
                /\ Len(workers') = Len(workers) + 1
                /\ workers'[Len(workers')].pc = "mkdtemp"]_vars

C3_Witness ==
    /\ Len(workers) = 2
    /\ ~Live(1)
    /\ workers[2].pc = "mkdtemp"
    /\ Len(randomize_rom_status.logs) = 1
    /\ randomize_rom_status.logs[1].text \in ValidationMessages

(***************************************************************************)
(* C4.  If the external invocation fails, or succeeds but leaves a number  *)
(* of candidate output files other than one, the run ends with             *)
(* is_running = false, is_finished = true, an [ERROR] line in the log and  *)
(* no [SUCCESS] line.                                                      *)
(***************************************************************************)
C4_RunFailureIsTerminal ==
    [][\A w \in 1..Len(workers) :
          (Ends(w) /\ InvocationFailed(workers[w])) =>
             /\ RunPair' = <<FALSE, TRUE>>
             /\ HasLinePrefixed(randomize_rom_status'.logs, "[ERROR]")
             /\ ~HasPiece(randomize_rom_status'.logs, "[SUCCESS]")]_vars

C4_Witness ==
    /\ RunPair = <<FALSE, TRUE>>
    /\ Len(randomize_rom_status.logs) > 0
    /\ LET last == randomize_rom_status.logs[Len(randomize_rom_status.logs)]
       IN  last.prefix = "[ERROR]" /\ last.text = "Expected one file"

(***************************************************************************)
(* C5.  A [SUCCESS] line is appended only after the invocation succeeded,  *)
(* exactly one candidate output file was found and it was copied next to   *)
(* the original; that run ends with (is_running, is_finished) =            *)
(* (false, true) and the destination file exists.                          *)
(***************************************************************************)
C5_SuccessOnlyAfterCopy ==
    [][/\ (HasPiece(randomize_rom_status'.logs, "[SUCCESS]")
           /\ ~HasPiece(randomize_rom_status.logs, "[SUCCESS]")) =>
             \E w \in 1..Len(workers) :
                /\ workers[w].pc = "log_success" /\ workers'[w].pc = "finish"
                /\ workers[w].invoked = "ok"
                /\ workers[w].found = 1
                /\ PathExists(fs, out_rom_path(workers[w]))
       /\ \A w \in 1..Len(workers) :
             (Ends(w) /\ HasPiece(randomize_rom_status.logs, "[SUCCESS]")) =>
                /\ RunPair' = <<FALSE, TRUE>>
                /\ PathExists(fs', out_rom_path(workers[w]))]_vars

C5_Witness ==
    /\ RunPair = <<FALSE, TRUE>>
    /\ HasLinePrefixed(randomize_rom_status.logs, "[SUCCESS]")
    /\ PathExists(fs, FilePath(Append(sd1_roms_path, "gba"), "a", "gba", <<0>>))

(***************************************************************************)
(* C6.  Every started run reaches is_running = false on every path of the  *)
(* worker, a failure of the temp directory or of the copy of the source    *)
(* ROM included: no exception leaves the worker thread, and is_running is  *)
(* true only while a worker is still going.                                *)
(***************************************************************************)
C6_EveryRunEndsNotRunning ==
    /\ \A w \in 1..Len(workers) : workers[w].pc # "raised"
    /\ (is_running /\ uiPc # "starting") => \E w \in 1..Len(workers) : Live(w)

(***************************************************************************)
(* C7.  As claimed: on a failure at steps 4 to 6 (config missing, binary   *)
(* missing, process failure, wrong output-file count) the log holds a line *)
(* carrying the [ERROR] prefix.                                            *)
(***************************************************************************)
ResolveFailures == {"No configuration found", "Randomizer binary not found"}

C7_AllFailuresLogError ==
    \A w \in 1..Len(workers) :
       LET wk == workers[w]
       IN  (\/ wk.pc = "clear_running" /\ wk.message \in ResolveFailures
            \/ wk.pc = "finish" /\ InvocationFailed(wk))
           => HasLinePrefixed(randomize_rom_status.logs, "[ERROR]")

(***************************************************************************)
(* C7, amended.  On a process failure or a wrong output-file count the     *)
(* worker appends a line carrying the [ERROR] prefix and the failure       *)
(* detail; on a missing config or binary it sets the log to the failure    *)
(* message, which carries no prefix.                                       *)
(***************************************************************************)
C7_RunFailuresLogError ==
    \A w \in 1..Len(workers) :
       LET wk   == workers[w]
           logs == randomize_rom_status.logs
       IN  /\ (wk.pc = "finish" /\ InvocationFailed(wk)) =>
                 /\ wk.message \in {"process failed", "Expected one file"}
                 /\ Len(logs) > 0
                 /\ logs[Len(logs)] = LogPiece("[ERROR]", wk.message, None, TRUE)
                 /\ LineStart(logs, Len(logs))
           /\ (wk.pc = "clear_running" /\ wk.message \in ResolveFailures) =>
                 logs = << LogPiece("", wk.message, wk.orig_rom_path, FALSE) >>

C7_Witness ==
    \E w \in 1..Len(workers) :
       /\ workers[w].pc = "finish"
       /\ workers[w].invoked = "failed"
       /\ HasLinePrefixed(randomize_rom_status.logs, "[ERROR]")

(***************************************************************************)
(* C8.  In SelectRom with the overlay hidden, select on a highlighted file *)
(* node sets the chosen ROM to the node's path and the step to             *)
(* RandomizeRom in that frame; select on a directory node changes neither  *)
(* the step nor the chosen ROM.                                            *)
(***************************************************************************)
C8_SelectFileStartsRandomize ==
    [][(/\ SelectActivation
        /\ IndexOk(select_rom_status.current_dir.children,
                   select_rom_status.current_selection)) =>
          LET node == Index(select_rom_status.current_dir.children,
                            select_rom_status.current_selection)
          IN  IF node.is_file
              THEN /\ select_rom_status'.selected_rom = node.path
                   /\ current_step' = RANDOMIZE_ROM
              ELSE /\ select_rom_status'.selected_rom = select_rom_status.selected_rom
                   /\ current_step' = current_step]_vars

C8_Witness ==
    /\ current_step = RANDOMIZE_ROM
    /\ select_rom_status.selected_rom =
          FilePath(Append(sd1_roms_path, "gba"), "a", "gba", << >>)
    /\ workers = << >>

(***************************************************************************)
(* C9.  On the RandomizeRom screen a back action while is_running is true  *)
(* changes nothing: step, selection state, tree, chosen ROM, is_running,   *)
(* is_finished and log stay as they are.                                   *)
(***************************************************************************)
C9_BackWhileRunningIsNoOp ==
    [][(BackActivation /\ is_running) =>
          UNCHANGED << current_step, select_rom_status, randomize_rom_status >>]_vars

C9_Witness ==
    /\ OnRandomizeScreen /\ uiPc = "frame" /\ running
    /\ is_running
    /\ \E w \in 1..Len(workers) : workers[w].pc = "copy_src"

(***************************************************************************)
(* C10.  On the RandomizeRom screen a back action while is_running is      *)
(* false moves the step to SelectRom and in the same action rebuilds the   *)
(* tree, makes the new root the current directory, empties the selection   *)
(* path, sets the highlight to 0, clears the chosen ROM and resets the run *)
(* state; no worker step taken afterwards alters that state.               *)
(***************************************************************************)
C10_BackResetsEverything ==
    [][/\ (BackActivation /\ ~is_running) =>
             /\ current_step' = SELECT_ROM
             /\ select_rom_status' =
                   [tree |-> reload_tree(fs), current_dir |-> reload_tree(fs),
                    selections |-> << >>, current_selection |-> 0,
                    selected_rom |-> None]
             /\ randomize_rom_status' = RandomizeROMStatus(FALSE, FALSE, << >>)
       /\ (current_step = SELECT_ROM /\ \E w \in 1..Len(workers) : patch_rom(w)) =>
             UNCHANGED << current_step, select_rom_status, randomize_rom_status >>]_vars

C10_Witness ==
    /\ current_step = SELECT_ROM
    /\ randomize_rom_status = RandomizeROMStatus(FALSE, FALSE, << >>)
    /\ \E w \in 1..Len(workers) : workers[w].pc = "cleanup"
    /\ select_rom_status.tree = reload_tree(fs)
    /\ PathExists(fs, FilePath(Append(sd1_roms_path, "gba"), "a", "gba", <<0>>))

(***************************************************************************)
(* C11.  The step changes only from SelectRom to RandomizeRom, by select   *)
(* on a file node, and from RandomizeRom to SelectRom, by back while no    *)
(* run is going; no other button, overlay action or worker step changes    *)
(* it, and next_step applied in RandomizeRom leaves it at RandomizeRom.    *)
(***************************************************************************)
C11_StepTransitions ==
    [][/\ current_step' # current_step =>
             \/ /\ current_step = SELECT_ROM /\ current_step' = RANDOMIZE_ROM
                /\ SelectActivation
                /\ IndexOk(select_rom_status.current_dir.children,
                           select_rom_status.current_selection)
                /\ Index(select_rom_status.current_dir.children,
                         select_rom_status.current_selection).is_file
             \/ /\ current_step = RANDOMIZE_ROM /\ current_step' = SELECT_ROM
                /\ BackActivation
                /\ ~is_running
       /\ (current_step = RANDOMIZE_ROM /\ next_step) =>
             current_step' = RANDOMIZE_ROM]_vars

C11_Witness ==
    /\ current_step = SELECT_ROM
    /\ exit_menu_status.show
    /\ workers # << >>
    /\ select_rom_status.selections # << >>

(***************************************************************************)
(* C12.  Once is_finished is true an activation of start starts no worker  *)
(* and changes no run state, however often it is repeated; is_finished     *)
(* becomes false again only by the back action, which returns to SelectRom *)
(* and resets the run state.                                               *)
(***************************************************************************)
C12_FinishedLocksOutStart ==
    [][/\ (StartActivation /\ is_finished) =>
             UNCHANGED << workers, randomize_rom_status >>
       /\ (is_finished /\ ~randomize_rom_status'.is_finished) =>
             /\ BackActivation
             /\ current_step' = SELECT_ROM
             /\ randomize_rom_status' = RandomizeROMStatus(FALSE, FALSE, << >>)
             /\ workers' = workers]_vars

C12_Witness ==
    /\ OnRandomizeScreen /\ uiPc = "frame" /\ running
    /\ is_finished
    /\ Len(workers) = 1
    /\ workers[1].pc = "returned"

(***************************************************************************)
(* C13.  At every moment at most one randomization worker thread exists,   *)
(* a worker counting from its start until its function has returned, the   *)
(* removal of its temp directory included.                                 *)
(***************************************************************************)
C13_AtMostOneWorker ==
    Cardinality({w \in 1..Len(workers) : Live(w)}) <= 1

(***************************************************************************)
(* C14.  In the exit overlay, select with option 0 highlighted sets        *)
(* exit-confirmed and leaves the overlay shown; with option 1 highlighted  *)
(* it hides the overlay and leaves exit-confirmed as it was; after either  *)
(* the highlighted option is 1.                                            *)
(***************************************************************************)
\* A frame in which ExitMenu.handle_navigation finds A active.
OverlaySelectActivation ==
    /\ exit_menu_status.show
    /\ \E keys \in SUBSET Buttons :
          /\ keys \cap {"MENUF", "DPAD_UP", "DPAD_DOWN"} = {}
          /\ "A" \in keys
          /\ Update(keys)

C14_OverlaySelect ==
    [][OverlaySelectActivation =>
          /\ exit_menu_status'.selected_item = 1
          /\ IF exit_menu_status.selected_item = 0
             THEN /\ exit_menu_status'.exit
                  /\ exit_menu_status'.show
             ELSE /\ ~exit_menu_status'.show
                  /\ exit_menu_status'.exit = exit_menu_status.exit]_vars

C14_Witness ==
    /\ exit_menu_status = ExitMenuStatus(TRUE, TRUE, 1)
    /\ ~running
    /\ uiPc = "frame"

(***************************************************************************)
(* C15.  In each frame exactly one of three things happens: if the menu    *)
(* button is active the overlay visibility is flipped, its highlighted     *)
(* option is set to 1 and no handler runs; otherwise, if the overlay is    *)
(* shown, only the overlay handler runs; otherwise only the handler of the *)
(* current step runs.                                                      *)
(***************************************************************************)
C15_OneHandlerPerFrame ==
    [][\A keys \in SUBSET Buttons : Update(keys) =>
          IF "MENUF" \in keys
          THEN /\ exit_menu_status' =
                     ExitMenuStatus(exit_menu_status.exit, ~exit_menu_status.show, 1)
               /\ UNCHANGED << current_step, select_rom_status,
                               randomize_rom_status, workers, uiPc >>
          ELSE IF exit_menu_status.show
          THEN /\ ExitMenu_handle_navigation(keys)
               /\ UNCHANGED << current_step, select_rom_status,
                               randomize_rom_status, workers, uiPc >>
          ELSE IF current_step = SELECT_ROM
          THEN /\ SelectROM_handle_navigation(keys)
               /\ UNCHANGED << exit_menu_status, randomize_rom_status, workers >>
          ELSE /\ RandomizeROM_handle_navigation(keys)
               /\ UNCHANGED exit_menu_status
               /\ select_rom_status' # select_rom_status =>
                     current_step' = SELECT_ROM]_vars

C15_Witness ==
    /\ exit_menu_status = ExitMenuStatus(FALSE, FALSE, 1)
    /\ current_step = RANDOMIZE_ROM
    /\ is_running
    /\ uiPc = "frame"
    /\ \E w \in 1..Len(workers) : workers[w].pc = "check_bin"

(***************************************************************************)
(* C16.  While the exit overlay is shown no frame changes the step, the    *)
(* selection state (tree, selection path, current directory, highlight,    *)
(* chosen ROM) or the run state, and none starts a worker: navigation      *)
(* changes the state of the overlay only.                                  *)
(***************************************************************************)
C16_OverlayIsModal ==
    [][(exit_menu_status.show /\ (Frame \/ RandomizeROM_started)) =>
          UNCHANGED << current_step, select_rom_status, randomize_rom_status,
                       workers >>]_vars

C16_Witness ==
    /\ exit_menu_status = ExitMenuStatus(FALSE, TRUE, 0)
    /\ current_step = RANDOMIZE_ROM
    /\ RunPair = <<FALSE, FALSE>>
    /\ workers = << >>

(***************************************************************************)
(* C17.  Once exit-confirmed is true it never becomes false again, no      *)
(* frame runs after the one that set it, whatever the step and whether or  *)
(* not a run is going, and the teardown runs exactly once, with exit code  *)
(* 0.  The main thread goes on from the end of the loop to destroy(app,0). *)
(***************************************************************************)
FairSpec == Spec /\ WF_vars(Destroy)

C17_ExitConfirmedEndsLoop ==
    /\ [][exit_menu_status.exit => exit_menu_status'.exit]_vars
    /\ [][exit_menu_status.exit => ~(Frame \/ RandomizeROM_started)]_vars
    /\ [](exit_menu_status.exit => (exit_codes \in {<< >>, <<0>>} /\ ~running))
    /\ [][exit_menu_status.exit => (exit_codes' = exit_codes \/ exit_codes = << >>)]_vars
    /\ (exit_menu_status.exit ~> (exit_codes = <<0>>))

C17_Witness ==
    /\ exit_menu_status.exit
    /\ exit_codes = <<0>>
    /\ uiPc = "exited"
    /\ current_step = RANDOMIZE_ROM
    /\ is_running

(***************************************************************************)
(* C18.  For every button: the first poll after a fresh press (a press of  *)
(* a button that was not held) returns True; every later poll while the    *)
(* button has stayed held for less than the repeat delay returns False;    *)
(* every poll once it has stayed held for at least the delay returns True. *)
(***************************************************************************)
C18_PollSemantics ==
    polled.key # "" =>
       /\ polled.first => polled.is_pressed
       /\ (~polled.first /\ polled.held_for >= 0
                         /\ polled.held_for < initial_delay) => ~polled.is_pressed
       /\ polled.held_for >= initial_delay => polled.is_pressed

(***************************************************************************)
(* C19.  For a press that is released before the repeat delay has elapsed  *)
(* the polls of that button return True at most once, however the press    *)
(* and the release of the event thread interleave with the polls and the   *)
(* clear_pressed calls of the main thread.                                 *)
(***************************************************************************)
C19_ShortPressActiveOnce ==
    \A k \in Buttons : presses[k].phase = "early" => presses[k].trues <= 1

C19_Witness ==
    /\ presses["A"].phase = "early"
    /\ presses["A"].trues = 1
    /\ time - presses["A"].pressed_at >= initial_delay
    /\ polled.key = "A"
    /\ ~polled.is_pressed

(***************************************************************************)
(* C20.  A press event for a button that is already held leaves its        *)
(* hold-start time as it was: the hold-start is written only when the      *)
(* button goes from not held to held.                                      *)
(***************************************************************************)
C20_RepressKeepsHoldStart ==
    [][\A k \in Buttons :
          (k \in keys_held /\ add_key_pressed(k)) =>
             keys_held_start_time'[k] = keys_held_start_time[k]]_vars

(***************************************************************************)
(* C21.  In every reachable state of Input, after any sequence of press,   *)
(* release, poll and clear_pressed, every button in the just-pressed set   *)
(* is also in the held set.                                                *)
(***************************************************************************)
C21_PressedSubsetOfHeld ==
    keys_pressed \subseteq keys_held

(***************************************************************************)
(* C22.  Between the methods of Input (each runs under _input_lock) a      *)
(* hold-start time is recorded for a button if and only if the button is   *)
(* in the held set, destroy included; so no poll looks up a hold-start     *)
(* time that is missing.                                                   *)
(***************************************************************************)
C22_HoldStartIffHeld ==
    /\ DOMAIN keys_held_start_time = keys_held
    /\ inputPc # InputCrashed

C22_Witness ==
    /\ inputPc = Destroyed
    /\ keys_held = {"A"}
    /\ keys_held_start_time["A"] = TickMs
    /\ time = MaxTime

(***************************************************************************)
(* C23.  In every tree a build or rebuild returns, every directory node in *)
(* a child list has at least one file descendant (folders without a ROM    *)
(* below them are pruned at every depth, mount roots included) and every   *)
(* file node has an allowed ROM extension.                                 *)
(***************************************************************************)
RECURSIVE HasFileDescendant(_)
HasFileDescendant(node) ==
    \E i \in 1..Len(node.children) :
       node.children[i].is_file \/ HasFileDescendant(node.children[i])

RECURSIVE Pruned(_)
Pruned(node) ==
    \A i \in 1..Len(node.children) :
       LET c == node.children[i]
       IN  IF c.is_file
           THEN c.path.suffix \in {"gba", "GBA", "gbc", "GBC", "gb", "GB"}
           ELSE HasFileDescendant(c) /\ Pruned(c)

C23_TreeIsPruned ==
    Pruned(select_rom_status.tree)

C23_Witness ==
    /\ Append(Append(sd1_roms_path, "empty"), "sub") \in DOMAIN fs
    /\ fs[Append(Append(sd1_roms_path, "empty"), "sub")] = << FileEntry("readme", "txt") >>
    /\ fs[sd1_roms_path] = << FileEntry("notes", "txt"), DirEntry("empty") >>
    /\ sd2_roms_path \in DOMAIN fs
    /\ Len(select_rom_status.tree.children) = 1
    /\ select_rom_status.tree.children[1].path = DirPath(sd2_roms_path)

C25_TempDirRemoved ==
    \A w \in 1..Len(workers) :
       /\ ~Live(w) => ~workers[w].temp_dir
       /\ (Live(w) /\ workers[w].pc # "mkdtemp") => workers[w].temp_dir

C25_Witness ==
    /\ Len(workers) = 2
    /\ workers[1].pc = "returned"
    /\ workers[2].pc = "raised"
    /\ ~PathExists(fs, select_rom_status.selected_rom)
    /\ is_running

(***************************************************************************)
(* C26.  The run log is append-only between resets: every change of the    *)
(* log keeps the text it had as a prefix of the new text, on the           *)
(* validation-failure paths and on a retry after a validation failure      *)
(* too; only the back reset shortens it.                                   *)
(***************************************************************************)
IsPrefix(a, b) == Len(a) <= Len(b) /\ SubSeq(b, 1, Len(a)) = a

C26_LogAppendOnly ==
    [][~IsPrefix(randomize_rom_status.logs, randomize_rom_status'.logs) =>
          /\ BackActivation
          /\ randomize_rom_status'.logs = << >>]_vars

(***************************************************************************)
(* C27.  On the SelectRom screen, on any built tree (a tree whose root has *)
(* no children included), the highlight h satisfies                        *)
(* 0 <= h < number of children of the current directory; up from 0 goes to *)
(* the last child, down from the last child goes to 0, and select always   *)
(* finds a child at the highlight.                                         *)
(***************************************************************************)
\* A frame in which SelectROM.handle_navigation finds DPAD_UP active.
SelectUpActivation ==
    /\ OnSelectScreen
    /\ \E keys \in SUBSET Buttons :
          "MENUF" \notin keys /\ "DPAD_UP" \in keys /\ Update(keys)

\* A frame in which SelectROM.handle_navigation finds DPAD_DOWN active.
SelectDownActivation ==
    /\ OnSelectScreen
    /\ \E keys \in SUBSET Buttons :
          /\ keys \cap {"MENUF", "DPAD_UP"} = {}
          /\ "DPAD_DOWN" \in keys
          /\ Update(keys)

Highlight     == select_rom_status.current_selection
ChildrenCount == Len(select_rom_status.current_dir.children)

C27_HighlightInRange ==
    /\ [](current_step = SELECT_ROM =>
             0 <= Highlight /\ Highlight < ChildrenCount)
    /\ [][(SelectUpActivation /\ Highlight = 0) =>
             select_rom_status'.current_selection = ChildrenCount - 1]_vars
    /\ [][(SelectDownActivation /\ Highlight = ChildrenCount - 1) =>
             select_rom_status'.current_selection = 0]_vars
    /\ [][SelectActivation =>
             /\ IndexOk(select_rom_status.current_dir.children, Highlight)
             /\ uiPc' # "crashed"]_vars

(***************************************************************************)
(* C28.  In every reachable state the selection path is exactly the        *)
(* sequence of directory nodes from the root's child down to the current   *)
(* directory, so its length is the depth of the current directory; it      *)
(* grows by one only on descending into a directory and shrinks by one     *)
(* only on ascending (the back reset empties it at the root).              *)
(***************************************************************************)
RECURSIVE DirectoryChain(_, _, _, _)
DirectoryChain(dir, selections, i, current) ==
    IF i > Len(selections) THEN dir = current
    ELSE /\ ~selections[i].is_file
         /\ \E k \in 1..Len(dir.children) : dir.children[k] = selections[i]
         /\ DirectoryChain(selections[i], selections, i + 1, current)

Selections == select_rom_status.selections

C28_SelectionsAreDirectoryChain ==
    /\ [] DirectoryChain(select_rom_status.tree, Selections, 1,
                         select_rom_status.current_dir)
    /\ [][Len(select_rom_status'.selections) > Len(Selections) =>
             /\ select_rom_status'.selections =
                   Append(Selections, select_rom_status'.current_dir)
             /\ ~select_rom_status'.current_dir.is_file
             /\ \E k \in 1..ChildrenCount :
                   select_rom_status.current_dir.children[k] =
                      select_rom_status'.current_dir]_vars
    /\ [][Len(select_rom_status'.selections) < Len(Selections) =>
             \/ /\ select_rom_status'.selections =
                      SubSeq(Selections, 1, Len(Selections) - 1)
                /\ \E k \in 1..Len(select_rom_status'.current_dir.children) :
                      select_rom_status'.current_dir.children[k] =
                         select_rom_status.current_dir
             \/ /\ BackActivation
                /\ select_rom_status'.selections = << >>]_vars

(***************************************************************************)
(* C29.  On the SelectRom screen a back action in a non-root directory     *)
(* removes the last entry of the selection path, sets the current          *)
(* directory to the node reached by walking the tree from the root along   *)
(* the shortened path, which is the parent of the directory that was       *)
(* current, and sets the highlight to 0.  A descent records exactly what   *)
(* the next back needs: dropping the entry it pushed gives the path before *)
(* the descent, and the walk along that path gives the directory before    *)
(* the descent, so descend followed by back restores both.  At the root    *)
(* back changes nothing and pops nothing.                                  *)
(***************************************************************************)
\* A frame in which SelectROM.handle_navigation finds B active.
SelectBackActivation ==
    /\ OnSelectScreen
    /\ \E keys \in SUBSET Buttons :
          /\ keys \cap {"MENUF", "DPAD_UP", "DPAD_DOWN", "A"} = {}
          /\ "B" \in keys
          /\ Update(keys)

Front(s) == SubSeq(s, 1, Len(s) - 1)

C29_BackGoesToParent ==
    /\ [][SelectBackActivation =>
             /\ uiPc' # "crashed"
             /\ IF select_rom_status.current_dir.path # RootPath
                THEN /\ Selections # << >>
                     /\ select_rom_status'.selections = Front(Selections)
                     /\ select_rom_status'.current_dir =
                           walk_selections(select_rom_status.tree,
                                           Front(Selections), 1)
                     /\ \E k \in 1..Len(select_rom_status'.current_dir.children) :
                           select_rom_status'.current_dir.children[k] =
                              select_rom_status.current_dir
                     /\ select_rom_status'.current_selection = 0
                     /\ select_rom_status'.tree = select_rom_status.tree
                     /\ select_rom_status'.selected_rom = select_rom_status.selected_rom
                ELSE /\ Selections = << >>
                     /\ UNCHANGED << select_rom_status, current_step >>]_vars
    /\ [][(SelectActivation
              /\ select_rom_status'.current_dir # select_rom_status.current_dir) =>
             /\ Front(select_rom_status'.selections) = Selections
             /\ walk_selections(select_rom_status'.tree,
                                Front(select_rom_status'.selections), 1) =
                   select_rom_status.current_dir]_vars

\* The state B leads to from SD1/gba: the path is [SD1] again and the
\* current directory is SD1, a directory with a sub-directory to come back
\* from, with the highlight on its first child.
C29_Witness ==
    /\ OnSelectScreen
    /\ Len(Selections) = 1
    /\ select_rom_status.current_dir.path.dir = sd1_roms_path
    /\ select_rom_status.current_dir = Selections[1]
    /\ ~select_rom_status.current_dir.children[1].is_file
    /\ select_rom_status.current_selection = 0

(***************************************************************************)
(* C30.  The highlighted option of the exit overlay is always 0 or 1.  In  *)
(* the overlay, up and down each flip it between 0 and 1 and change        *)
(* nothing else: the overlay stays shown, exit is not confirmed, and the   *)
(* step, the selection, the run state and the workers stay as they are.    *)
(***************************************************************************)
\* A frame in which ExitMenu.handle_navigation finds DPAD_UP or, failing
\* that, DPAD_DOWN active.
OverlayUpDownActivation ==
    /\ exit_menu_status.show
    /\ \E keys \in SUBSET Buttons :
          /\ "MENUF" \notin keys
          /\ keys \cap {"DPAD_UP", "DPAD_DOWN"} # {}
          /\ Update(keys)

C30_OverlayHighlightFlips ==
    /\ [](exit_menu_status.selected_item \in {0, 1})
    /\ [][OverlayUpDownActivation =>
             /\ exit_menu_status' =
                   [exit_menu_status EXCEPT !.selected_item = 1 - @]
             /\ UNCHANGED << current_step, select_rom_status,
                             randomize_rom_status, workers, running, uiPc,
                             exit_codes, fs >>]_vars

\* The overlay is open over the SelectRom screen with "exit" highlighted,
\* which only an up or a down in the overlay produces.
C30_Witness ==
    /\ exit_menu_status = ExitMenuStatus(FALSE, TRUE, 0)
    /\ current_step = SELECT_ROM
    /\ select_rom_status.selections # << >>

(***************************************************************************)
(* C31.  No step of the worker writes any part of the application state    *)
(* other than the run state (is_running, is_finished, log): the step, the  *)
(* exit-overlay state, the tree, the selection path, the current           *)
(* directory, the highlight and the chosen ROM are unchanged by every      *)
(* worker step.                                                            *)
(***************************************************************************)
WorkerStep == \E w \in 1..Len(workers) : patch_rom(w)

C31_WorkerWritesRunStateOnly ==
    [][WorkerStep =>
          UNCHANGED << current_step, exit_menu_status, select_rom_status >>]_vars

\* A worker has written the log and the running flag on an early return,
\* next to a chosen ROM that is still set.
C31_Witness ==
    /\ Len(workers) = 1
    /\ workers[1].pc = "cleanup"
    /\ Len(randomize_rom_status.logs) = 1
    /\ randomize_rom_status.logs[1].text = "No configuration found"
    /\ ~is_running /\ ~is_finished
    /\ current_step = RANDOMIZE_ROM
    /\ select_rom_status.selected_rom # None
    /\ ~exit_menu_status.show

(***************************************************************************)
(* C36.  The running flag is set under the lock before the worker is       *)
(* spawned: in every reachable state in which a spawned worker has not yet *)
(* marked its run ended, while it reads the chosen ROM or writes a         *)
(* validation message too, is_running is true.                             *)
(***************************************************************************)
\* The thread of w exists and has reached neither of the blocks that assign
\* is_running = False.
RunNotEnded(w) == Live(w) /\ workers[w].pc # "cleanup"

C36_RunningWhileWorkerRuns ==
    \A w \in 1..Len(workers) : RunNotEnded(w) => is_running

(***************************************************************************)
(* C37.  Between frames the step is RandomizeRom if and only if a chosen   *)
(* ROM is set; hence every worker reads a chosen ROM that is set and the   *)
(* 'No ROM selected.' validation path is never taken, under any            *)
(* interleaving of frames and worker steps.                                *)
(***************************************************************************)
C37_StepIffChosenRom ==
    /\ (current_step = RANDOMIZE_ROM) <=> (select_rom_status.selected_rom # None)
    /\ \A w \in 1..Len(workers) :
          /\ workers[w].message # "No ROM selected."
          /\ workers[w].pc = "read_rom" => select_rom_status.selected_rom # None
          /\ workers[w].pc = "check_rom" => workers[w].orig_rom_path # None
    /\ \A i \in 1..Len(randomize_rom_status.logs) :
          randomize_rom_status.logs[i].text # "No ROM selected."

\* A second worker, started after a back and a new choice, has read the
\* chosen ROM.
C37_Witness ==
    /\ Len(workers) = 2
    /\ workers[1].pc = "returned"
    /\ workers[2].pc = "check_rom"
    /\ workers[2].orig_rom_path = select_rom_status.selected_rom
    /\ current_step = RANDOMIZE_ROM
    /\ randomize_rom_status.logs = << >>

(***************************************************************************)
(* C38.  Whenever is_finished is true the log contains the 'Starting       *)
(* randomization' text followed by exactly one terminal line of that run:  *)
(* one line starting with [SUCCESS] or one line starting with [ERROR],     *)
(* never both and never neither.                                           *)
(***************************************************************************)
TerminalLines(logs) ==
    {i \in 1..Len(logs) : /\ logs[i].prefix \in {"[SUCCESS]", "[ERROR]"}
                          /\ LineStart(logs, i)}

C38_FinishedLogHasOneTerminalLine ==
    is_finished =>
       LET logs == randomize_rom_status.logs
       IN  /\ Cardinality(TerminalLines(logs)) = 1
           /\ HasLinePrefixed(logs, "[SUCCESS]") # HasLinePrefixed(logs, "[ERROR]")
           /\ CountStarting(logs) = 1
           /\ \E i \in 1..Len(logs) :
                 /\ logs[i].text = "Starting randomization"
                 /\ \A j \in TerminalLines(logs) : i < j

\* A run that failed, started after an earlier attempt had left its
\* validation message in the log.
C38_Witness ==
    /\ is_finished
    /\ Len(randomize_rom_status.logs) = 3
    /\ randomize_rom_status.logs[1].text = "No configuration found"
    /\ randomize_rom_status.logs[3].prefix = "[ERROR]"

(***************************************************************************)
(* C39.  No press is lost between the event thread and the frame loop: for *)
(* every press event of a button that the handler polls in every frame,    *)
(* some later poll of that button returns True, whatever the interleaving  *)
(* of press and release with poll and clear_pressed.  A press that was     *)
(* released without a poll having returned True for it must therefore      *)
(* still be recorded as just pressed, since nothing else can make a later  *)
(* poll return True.  The press looked at is the one that made the button  *)
(* held, before any poll of the button has followed it.                    *)
(***************************************************************************)
\* DPAD_UP is polled in every frame: only MENUF, which gets no event here,
\* is polled before it.
PolledEveryFrame == {"DPAD_UP"}

C39_NoPressLost ==
    \A k \in PolledEveryFrame :
       (/\ presses[k].phase \in {"early", "late"}
        /\ presses[k].awaiting
        /\ presses[k].trues = 0) =>
          k \in keys_pressed

(***************************************************************************)
(* The three locks of RandomizeROM (_is_running_lock, _is_finished_lock,   *)
(* _logs_lock), named after the field each guards.  In Spec a with block   *)
(* is one step; LockSpec takes the blocks lock by lock: a thread that      *)
(* enters a with statement acquires its locks one at a time in the order   *)
(* written, waiting while another thread holds the next one, runs the      *)
(* body and releases them.  The main thread's position is uiPc:            *)
(* "X_lock_k" before acquiring the k-th lock of block X, "X_locked" /      *)
(* "starting" inside the body.  One frame is handle_navigation followed by *)
(* the render of the next update call.                                     *)
(***************************************************************************)
RunFields == {"is_running", "is_finished", "logs"}

\* with self._is_running_lock, self._is_finished_lock:   (handler, A)
A_locks == << "is_running", "is_finished" >>
\* with self._is_running_lock:                           (handler, B)
B_locks == << "is_running" >>
\* with self._logs_lock:                                 (render)
render_locks == << "logs" >>

\* Mutant: the worker's last block names the locks in the other order.
finish_locks_FinishedFirst == << "is_finished", "is_running" >>

\* with self._is_running_lock, self._is_finished_lock:   (worker, line 803)
finish_locks == << "is_running", "is_finished" >>

\* Mutant: subprocess.run is called inside the with self._logs_lock block
\* that writes the Starting line.
with_locks_RunUnderLogsLock(pc) ==
    CASE pc \in {"log_validation", "log_start", "run", "log_success",
                 "log_error"} -> << "logs" >>
      [] pc = "clear_running" -> << "is_running" >>
      [] pc = "finish" -> finish_locks
      [] OTHER -> << >>

\* The locks of the with block that encloses the worker's step at pc.
with_locks(pc) ==
    CASE pc \in {"log_validation", "log_start", "log_success", "log_error"} ->
            << "logs" >>
      [] pc = "clear_running" -> << "is_running" >>
      [] pc = "finish" -> finish_locks
      [] OTHER -> << >>

HeldSet(h) == {h[i] : i \in 1..Len(h)}

UiHeld ==
    CASE uiPc = "A_lock_2" -> SubSeq(A_locks, 1, 1)
      [] uiPc \in {"A_locked", "starting"} -> A_locks
      [] uiPc = "B_locked" -> B_locks
      [] uiPc = "render_locked" -> render_locks
      [] OTHER -> << >>

\* The lock the main thread is about to acquire, "" if none.
UiWants ==
    CASE uiPc = "A_lock_1" -> A_locks[1]
      [] uiPc = "A_lock_2" -> A_locks[2]
      [] uiPc = "B_lock_1" -> B_locks[1]
      [] uiPc = "render_lock_1" -> render_locks[1]
      [] OTHER -> ""

\* The lock a worker is about to acquire, "" if none.
WorkerWants(wk) ==
    IF IsPrefix(wk.held, with_locks(wk.pc)) /\ wk.held # with_locks(wk.pc)
    THEN with_locks(wk.pc)[Len(wk.held) + 1]
    ELSE ""

\* threading.Lock: acquire returns only while no thread holds the lock
LockFree(l) ==
    /\ l \notin HeldSet(UiHeld)
    /\ \A w \in 1..Len(workers) : l \notin HeldSet(workers[w].held)

LockUiRest == << exit_menu_status, running, exit_codes, fs, clock, InputVars >>

\* frames of the SelectRom screen, which take no lock
lock_select_frame ==
    /\ current_step = SELECT_ROM
    /\ \E keys \in SUBSET (Buttons \ {"MENUF"}) : Update(keys)

\* RandomizeROM.handle_navigation: input.key(A), elif input.key(B)
lock_navigate ==
    /\ uiPc = "frame"
    /\ running
    /\ OnRandomizeScreen
    /\ \E k \in {"A", "B", ""} :
          /\ k = "A" => Len(workers) < MaxSpawn
          /\ uiPc' = IF k = "A" THEN "A_lock_1"
                     ELSE IF k = "B" THEN "B_lock_1" ELSE "render_lock_1"
    /\ UNCHANGED << current_step, select_rom_status, randomize_rom_status,
                    workers, LockUiRest >>

\* Lock.acquire by the main thread
lock_ui_acquire ==
    /\ UiWants # ""
    /\ LockFree(UiWants)
    /\ uiPc' = CASE uiPc = "A_lock_1" -> "A_lock_2"
                 [] uiPc = "A_lock_2" -> "A_locked"
                 [] uiPc = "B_lock_1" -> "B_locked"
                 [] uiPc = "render_lock_1" -> "render_locked"
    /\ UNCHANGED << current_step, select_rom_status, randomize_rom_status,
                    workers, LockUiRest >>

\* if is_finished: return; if not is_running: Thread(...).start()
lock_A_body ==
    /\ uiPc = "A_locked"
    /\ IF randomize_rom_status.is_finished \/ randomize_rom_status.is_running
       THEN uiPc' = "render_lock_1" /\ UNCHANGED workers
       ELSE workers' = Append(workers, NewWorker) /\ uiPc' = "starting"
    /\ UNCHANGED << current_step, select_rom_status, randomize_rom_status,
                    LockUiRest >>

\* status.randomize_rom_status.is_running = True; both locks released
lock_A_started ==
    /\ uiPc = "starting"
    /\ randomize_rom_status' = [randomize_rom_status EXCEPT !.is_running = TRUE]
    /\ uiPc' = "render_lock_1"
    /\ UNCHANGED << current_step, select_rom_status, workers, LockUiRest >>

\* if not is_running: status.previous_step(); the lock released
lock_B_body ==
    /\ uiPc = "B_locked"
    /\ IF ~randomize_rom_status.is_running
       THEN previous_step /\ uiPc' = "frame"
       ELSE /\ uiPc' = "render_lock_1"
            /\ UNCHANGED << current_step, select_rom_status, randomize_rom_status >>
    /\ UNCHANGED << workers, LockUiRest >>

\* RandomizeROM.render: logs = status.randomize_rom_status.logs.split("\n")
lock_render ==
    /\ uiPc = "render_locked"
    /\ uiPc' = "frame"
    /\ UNCHANGED << current_step, select_rom_status, randomize_rom_status,
                    workers, LockUiRest >>

\* Lock.acquire by a worker
lock_worker_acquire(w) ==
    /\ Alive
    /\ w \in 1..Len(workers)
    /\ WorkerWants(workers[w]) # ""
    /\ LockFree(WorkerWants(workers[w]))
    /\ SetWorker(w, [workers[w] EXCEPT !.held = Append(@, WorkerWants(workers[w]))])
    /\ UNCHANGED << UiState, randomize_rom_status, fs, clock >>

\* the end of a with block that the worker leaves without returning
lock_worker_release(w) ==
    /\ Alive
    /\ w \in 1..Len(workers)
    /\ ~IsPrefix(workers[w].held, with_locks(workers[w].pc))
    /\ SetWorker(w, [workers[w] EXCEPT !.held = << >>])
    /\ UNCHANGED << UiState, randomize_rom_status, fs, clock >>

\* a step of _patch_rom, taken with the locks of its with block held
lock_worker_step(w) ==
    /\ w \in 1..Len(workers)
    /\ workers[w].held = with_locks(workers[w].pc)
    /\ patch_rom(w)

LockInit == Init /\ fs = FsOneCard

LockNext ==
    \/ lock_select_frame
    \/ lock_navigate
    \/ lock_ui_acquire
    \/ lock_A_body
    \/ lock_A_started
    \/ lock_B_body
    \/ lock_render
    \/ \E w \in 1..MaxSpawn : lock_worker_acquire(w)
    \/ \E w \in 1..MaxSpawn : lock_worker_release(w)
    \/ \E w \in 1..MaxSpawn : lock_worker_step(w)

LockSpec == LockInit /\ [][LockNext]_vars

\* The main thread runs on; a thread that holds a lock runs on, except that
\* the external process need never exit.
UiLockStep ==
    lock_ui_acquire \/ lock_A_body \/ lock_A_started \/ lock_B_body \/ lock_render

WorkerHoldingStep(w) ==
    /\ w \in 1..Len(workers)
    /\ workers[w].held # << >>
    /\ \/ lock_worker_acquire(w)
       \/ lock_worker_release(w)
       \/ workers[w].pc # "run" /\ lock_worker_step(w)

LockFairSpec ==
    /\ LockSpec
    /\ WF_vars(UiLockStep)
    /\ WF_vars(\E w \in 1..MaxSpawn : WorkerHoldingStep(w))

(***************************************************************************)
(* The fields of the application state that a step reads or writes, by     *)
(* the position of the thread that takes it.                               *)
(***************************************************************************)
UiOnlyFields ==
    {"current_step", "tree", "selections", "current_dir", "current_selection",
     "selected_rom", "exit", "show", "selected_item"}

WorkerTouches(pc) ==
    CASE pc = "read_rom" -> {"selected_rom"}
      [] pc \in {"log_validation", "log_start", "log_success", "log_error"} ->
            {"logs"}
      [] pc = "clear_running" -> {"is_running"}
      [] pc = "finish" -> {"is_running", "is_finished"}
      [] OTHER -> {}

UiTouches ==
    CASE uiPc = "A_locked" ->
            {"is_finished"} \cup
            (IF randomize_rom_status.is_finished THEN {} ELSE {"is_running"})
      [] uiPc = "starting" -> {"is_running"}
      [] uiPc = "B_locked" ->
            {"is_running"} \cup
            (IF randomize_rom_status.is_running THEN {}
             ELSE {"current_step", "tree", "current_dir", "selections",
                   "selected_rom", "current_selection", "is_finished", "logs"})
      [] uiPc = "render_locked" -> {"logs"}
      [] OTHER -> {}

\* worker w takes a step of _patch_rom
Moves(w) == workers'[w].pc # workers[w].pc

(***************************************************************************)
(* C32.  The step, the selection state (the chosen ROM path included) and  *)
(* the exit-confirm state are touched, read or written, only by the main   *)
(* thread: no step of a worker accesses them.                              *)
(***************************************************************************)
C32_WorkerNeverTouchesUiState ==
    [][\A w \in 1..Len(workers) :
          Moves(w) => WorkerTouches(workers[w].pc) \cap UiOnlyFields = {}]_vars

(***************************************************************************)
(* C33.  Every read and every write of is_running, is_finished and the     *)
(* log, by the main thread or by a worker, happens while the accessing     *)
(* thread holds the lock of that field, the reset of the three fields by   *)
(* the back action included.                                               *)
(***************************************************************************)
C33_AccessUnderOwnLock ==
    [][/\ uiPc' # uiPc => (UiTouches \cap RunFields) \subseteq HeldSet(UiHeld)
       /\ \A w \in 1..Len(workers) :
             Moves(w) => (WorkerTouches(workers[w].pc) \cap RunFields)
                            \subseteq HeldSet(workers[w].held)]_vars

(***************************************************************************)
(* C34.  A thread that holds more than one run-state lock acquired them in *)
(* the order running lock, finished lock; the log lock is never held       *)
(* together with another lock; and in no reachable state do the main       *)
(* thread and a worker each wait for a lock the other holds.               *)
(***************************************************************************)
LockOrderOk(h) ==
    /\ Len(h) > 1 => h = << "is_running", "is_finished" >>
    /\ "logs" \in HeldSet(h) => h = << "logs" >>

WaitForEachOther(w) ==
    /\ UiWants \in HeldSet(workers[w].held)
    /\ WorkerWants(workers[w]) \in HeldSet(UiHeld)

C34_LockOrderNoDeadlock ==
    /\ LockOrderOk(UiHeld)
    /\ \A w \in 1..Len(workers) :
          LockOrderOk(workers[w].held) /\ ~WaitForEachOther(w)

\* The main thread waits for the running lock, which a worker holds while
\* it goes on to the finished lock.
C34_Witness ==
    /\ uiPc = "B_lock_1"
    /\ Len(workers) = 1
    /\ workers[1].pc = "finish"
    /\ workers[1].held = << "is_running" >>
    /\ WorkerWants(workers[1]) = "is_finished"

(***************************************************************************)
(* C35.  The worker holds no run-state lock while it does blocking work    *)
(* (creating or removing the temp directory, copying files, running the    *)
(* external process), so every lock the main thread asks for in render or  *)
(* navigation is granted after finitely many worker steps and each frame   *)
(* completes, even if the external process never exits.                    *)
(***************************************************************************)
Blocking == {"mkdtemp", "copy_src", "run", "copy_out", "cleanup", "unwind"}

C35_UiNeverBlocksOnWorker ==
    /\ [][\A w \in 1..Len(workers) :
            (workers[w].pc \in Blocking /\ Moves(w)) =>
               workers[w].held = << >>]_vars
    /\ (UiWants # "") ~> (UiWants = "")
    /\ (uiPc # "frame") ~> (uiPc = "frame")

\* The main thread reads the log under its lock while the external process
\* of a worker is running.
C35_Witness ==
    /\ uiPc = "render_locked"
    /\ Len(workers) = 1
    /\ workers[1].pc = "run"
    /\ workers[1].held = << >>
    /\ is_running

====
